---- MODULE Spec2Model ----
(***************************************************************************)
(* Model of the Walmart scrapers.                                          *)
(*                                                                         *)
(*  Spec        : WalmartCanadaScraper (walmart_canada_scraper.py):        *)
(*                scrape_all_stores -> scrape_store_page ->                *)
(*                _extract_products_via_api, with rotate_proxy,            *)
(*                setup_driver, cooldown_after_captcha, _mark_api_blocked. *)
(*  SpecFetch   : walmart_scraper/utils.py fetch_html.                     *)
(*  SpecProduct : walmart_scraper/walmart_product.py WalmartProductScraper *)
(*                (semaphore-bounded fetch_product tasks).                 *)
(*  SpecMain    : walmart_scraper/walmart_main.py run_scraper with         *)
(*                walmart_search.py scrape_search.                         *)
(*  SpecRecord  : _extract_store_metadata, _detect_promo_type and          *)
(*                _normalize_product applied to one raw item.              *)
(*                                                                         *)
(* Optional[int] values are modelled as sequences: <<>> is None, <<n>> is  *)
(* the integer n.  Optional[str] proxies use the string "None" for None.   *)
(* Locals of a function that returned (or was unwound by an exception)     *)
(* are put back to their idle values.                                      *)
(***************************************************************************)
EXTENDS Integers, Sequences, FiniteSets, TLC

VARIABLES
    \* ---- WalmartCanadaScraper configuration (constructor / CLI arguments)
    max_retries,          \* self.max_retries
    stores_per_province,  \* argument of scrape_all_stores: <<>> (None) or <<n>>
    proxy_list,           \* self.proxy_list
    \* ---- WalmartCanadaScraper object state
    api_blocked,          \* self.api_blocked
    current_proxy_index,  \* self.current_proxy_index
    active_proxy,         \* self.active_proxy
    driver,               \* self.driver: <<>> (None) or <<[proxy, live]>>
    \* ---- scrape_all_stores locals
    pc,                   \* position of the (single) thread of control
    prov,                 \* index of the current province in the table
    store_num,            \* current store number of the inner for loop
    store_count,          \* store_count
    all_data,             \* len(all_data)
    saved,                \* which file save_data wrote: "none", "full", "partial"
    termination,          \* how scrape_all_stores ended: "", "normal", "interrupted", "critical"
    \* ---- scrape_store_page locals
    retry,                \* parameter retry of the current (recursive) call
    data,                 \* value returned to scrape_all_stores: <<>> or <<record>>
    \* ---- _extract_products_via_api locals
    qi,                   \* index in search_queries of the current query
    page,                 \* page
    attempt,              \* attempt of "for attempt in range(2)"
    use_browser_api,      \* use_browser_api
    response,             \* (response_status, response_text)
    all_products,         \* len(all_products)
    session_proxy,        \* proxy configured on the requests.Session
    extract_result,       \* how the call ended: "", "returned", "raised"
    \* ---- observation (history) variables, never read by the program
    visited,              \* sequence of <<prov, store_num>> passed to scrape_store_page
    live_drivers,         \* Chrome instances created and not yet quit
    prev_switched,        \* the previous store's extraction switched to the browser
                          \* (observed until this store's first page is handled)
    gets,                 \* driver.get calls for the store whose page is being loaded
    store_rot,            \* rotate_proxy calls during the current scrape_store_page
    cooldowns,            \* cooldown_after_captcha calls during the current store
    captcha_failed,       \* handle_captcha returned False for the current store
    gets_at_captcha,      \* value of gets when the CAPTCHA was left unresolved
    loop_reqs,            \* requests issued by the current run of the 412 retry loop
    backoffs,             \* 412 backoff sleeps of the current run of the retry loop
    store_requested,      \* an API request (direct or in-browser) was issued for this store
    ret_reason,           \* why _extract_products_via_api returned
    ret_products,         \* len() of the list it returned
    req_after_ret,        \* a request was issued for the store after the return
    blocked_at_entry,     \* api_blocked held when _extract_products_via_api was called
    seen_4xx_direct,      \* a direct response 4xx (not 412/456) left the retry loop
    direct_after_4xx,     \* a direct request was issued after such a response
    reissue,              \* in-browser re-issues made for the current page request
    first_via,            \* transport of the first request of the current store
    \* ---- fetch_html (utils.py)
    f_pc, f_max_attempts, f_client, f_scrapfly, f_attempt, f_fetches,
    f_result, f_last, f_raised, f_exceptions,
    \* ---- WalmartProductScraper (walmart_product.py)
    p_concurrency, p_urls, p_value, p_pc, p_attempt, p_result, p_gathered,
    \* ---- run_scraper (walmart_main.py) and scrape_search (walmart_search.py)
    m_pc,                 \* position in run_scraper
    m_pages,              \* argument pages
    m_concurrency,        \* argument concurrency
    m_search_client,      \* search_scraper._client: "none", "open", "closed"
    m_product_client,     \* product_scraper._client: "none", "open", "closed"
    m_error,              \* an exception is propagating out of run_scraper
    s_page,               \* page of the for loop of scrape_search
    s_results,            \* results: the page each collected item came from
    s_fetched,            \* observation: pages passed to fetch_search_page, in order
    s_stopped,            \* observation: the page that yielded no items (0: none)
    \* ---- one raw item going through _detect_promo_type / _normalize_product
    n_pc,                 \* "idle", "call", "entry", "done"
    n_page_id,            \* store id found in the page source: "" when no pattern matches
    n_slug,               \* last path segment of the store URL
    n_hint,               \* promo_hint of the current query
    n_raw,                \* the raw item: [promo, title, url]
    n_store_id,           \* store_id handed to _extract_products_via_api
    n_record              \* <<>> (None, or no call) or <<product record>>

cfgVars  == <<max_retries, stores_per_province, proxy_list>>
objVars  == <<api_blocked, current_proxy_index, active_proxy, driver>>
allVars  == <<pc, prov, store_num, store_count, all_data, saved, termination>>
pageVars == <<retry, data>>
apiVars  == <<qi, page, attempt, use_browser_api, response, all_products,
              session_proxy, extract_result>>
runHist  == <<visited, live_drivers, prev_switched>>
storeHist == <<gets, store_rot, cooldowns, captcha_failed, gets_at_captcha, loop_reqs,
               backoffs, store_requested, ret_reason, ret_products, req_after_ret,
               blocked_at_entry, seen_4xx_direct, direct_after_4xx, reissue,
               first_via>>
canadaVars == <<cfgVars, objVars, allVars, pageVars, apiVars, runHist, storeHist>>
fetchVars == <<f_pc, f_max_attempts, f_client, f_scrapfly, f_attempt, f_fetches,
               f_result, f_last, f_raised, f_exceptions>>
prodVars == <<p_concurrency, p_urls, p_value, p_pc, p_attempt, p_result, p_gathered>>
mainVars == <<m_pc, m_pages, m_concurrency, m_search_client, m_product_client,
              m_error, s_page, s_results, s_fetched, s_stopped>>
normVars == <<n_pc, n_page_id, n_slug, n_hint, n_raw, n_store_id, n_record>>
vars == <<canadaVars, fetchVars, prodVars, mainVars, normVars>>

----------------------------------------------------------------------------
(* Generic helpers *)

None == "None"

Min(a, b) == IF a <= b THEN a ELSE b

\* Python truthiness of an Optional[int]
Truthy(x) == x # <<>> /\ x[1] # 0

----------------------------------------------------------------------------
(* Bounds of the model *)

MaxProvinces == 1      \* number of provinces of the table that are modelled
MaxStoreNum == 2       \* store totals of the table are capped at this value
MaxProducts == 1       \* distinct product keys the search API can return
MaxRetriesBound == 2   \* largest max_retries explored
MaxSppBound == 2       \* largest stores_per_province explored

----------------------------------------------------------------------------
(* Program constants of walmart_canada_scraper.py *)

\* WALMART_STORES_CANADA, store totals in table (dict insertion) order
WALMART_STORES_CANADA == <<147, 72, 59, 48, 18, 16, 14, 13, 11, 2>>

\* The model iterates over the last MaxProvinces rows of the table, each
\* total capped at MaxStoreNum.
NumProvinces == Min(MaxProvinces, Len(WALMART_STORES_CANADA))

total_stores(p) ==
    Min(WALMART_STORES_CANADA[Len(WALMART_STORES_CANADA) - NumProvinces + p], MaxStoreNum)

search_queries == <<"rollback", "clearance", "deal">>

max_pages == 2

RetryLoopAttempts == 2

RotateEvery == 10

\* status of fetch_walmart_api_via_browser's (None, None)
StatusNone == 0 - 1

\* Response statuses the server can produce
DirectStatuses == {200, 412, 456, 404, 500}

BrowserStatuses == DirectStatuses \cup {StatusNone}

\* Shapes of a response body: a JSON page of 32 items, of fewer items, of no
\* items, text that is not JSON, an empty text, an error page, None.
Bodies200 == {"full", "partial", "noitems", "badjson", "empty"}

BodyOf(status) ==
    IF status = 200 THEN Bodies200
    ELSE IF status = StatusNone THEN {None} ELSE {"error"}

DirectResponses ==
    UNION {{[status |-> s, body |-> b] : b \in BodyOf(s)} : s \in DirectStatuses}

BrowserResponses ==
    UNION {{[status |-> s, body |-> b] : b \in BodyOf(s)} : s \in BrowserStatuses}

NoResponse == [status |-> StatusNone, body |-> None]

ProxyLists == {<<>>, <<"p1">>, <<"p1", "p2">>}

----------------------------------------------------------------------------
(* Idle values of the locals and of the per-store observations *)

PageLocalsIdle ==
    /\ retry' = 0
    /\ data' = <<>>

ApiLocalsIdle ==
    /\ qi' = 1 /\ page' = 1 /\ attempt' = 0 /\ use_browser_api' = FALSE
    /\ response' = NoResponse /\ all_products' = 0 /\ session_proxy' = None
    /\ extract_result' = ""

StoreHistIdle ==
    /\ gets' = 0 /\ store_rot' = 0 /\ cooldowns' = 0 /\ captcha_failed' = FALSE
    /\ gets_at_captcha' = 0 /\ loop_reqs' = <<>> /\ backoffs' = 0
    /\ store_requested' = FALSE /\ ret_reason' = "" /\ ret_products' = 0
    /\ req_after_ret' = FALSE /\ blocked_at_entry' = FALSE
    /\ seen_4xx_direct' = FALSE /\ direct_after_4xx' = FALSE /\ reissue' = 0 /\ first_via' = ""

----------------------------------------------------------------------------
(* WalmartCanadaScraper: proxy rotation and driver set-up *)

\* variant: the index is incremented before the proxy is selected
rotate_proxy_preincrement(idx) ==
    IF Len(proxy_list) = 0
    THEN [ret |-> None, index |-> idx, active |-> None]
    ELSE LET proxy == proxy_list[((idx + 1) % Len(proxy_list)) + 1]
         IN  [ret |-> proxy, index |-> idx + 1, active |-> proxy]

\* rotate_proxy(): the returned proxy and the new current_proxy_index and
\* active_proxy, from the index before the call
rotate_proxy(idx) ==
    IF Len(proxy_list) = 0
    THEN [ret |-> None, index |-> idx, active |-> None]
    ELSE LET proxy == proxy_list[(idx % Len(proxy_list)) + 1]
         IN  [ret |-> proxy, index |-> idx + 1, active |-> proxy]

\* setup_driver(): the proxy handed to create_driver and the object state
\* after the call (rotate_proxy is called when active_proxy is None)
setup_driver(active, idx) ==
    IF active # None
    THEN [proxy |-> active, index |-> idx, active |-> active]
    ELSE LET r == rotate_proxy(idx)
         IN  [proxy |-> r.ret, index |-> r.index, active |-> r.active]

NewDriver(proxy) == <<[proxy |-> proxy, live |-> TRUE]>>

QuitDriver(d) == IF d = <<>> THEN d ELSE <<[d[1] EXCEPT !.live = FALSE]>>

DriverLive == driver # <<>> /\ driver[1].live

\* variant: the driver is dropped without quit()
LiveAfterQuit_noquit(d, n) == n

\* self.driver.quit(): the number of live Chrome instances after quitting d
LiveAfterQuit(d, n) == IF d # <<>> /\ d[1].live THEN n - 1 ELSE n

----------------------------------------------------------------------------
(* scrape_all_stores *)

\* stores_to_scrape = stores_per_province or total_stores
stores_to_scrape(p) ==
    IF Truthy(stores_per_province) THEN stores_per_province[1] ELSE total_stores(p)

\* exclusive end of range(1, min(stores_to_scrape + 1, total_stores + 1))
RangeEnd(p) == Min(stores_to_scrape(p) + 1, total_stores(p) + 1)

\* self.driver = self.setup_driver() succeeds
SetupDriver ==
    /\ pc = "start"
    /\ LET s == setup_driver(active_proxy, current_proxy_index)
       IN  /\ driver' = NewDriver(s.proxy)
           /\ current_proxy_index' = s.index
           /\ active_proxy' = s.active
    /\ live_drivers' = live_drivers + 1
    /\ pc' = "province"
    /\ UNCHANGED <<max_retries, stores_per_province, proxy_list, api_blocked, prov,
                   store_num, store_count, all_data, saved, termination, retry, data, qi,
                   page, attempt, use_browser_api, response, all_products, session_proxy,
                   extract_result, visited, prev_switched, gets, store_rot, cooldowns,
                   captcha_failed, gets_at_captcha, loop_reqs, backoffs, store_requested,
                   ret_reason, ret_products, req_after_ret, blocked_at_entry,
                   seen_4xx_direct, direct_after_4xx, reissue, first_via, f_pc,
                   f_max_attempts, f_client, f_scrapfly, f_attempt, f_fetches, f_result,
                   f_last, f_raised, f_exceptions, p_concurrency, p_urls, p_value, p_pc,
                   p_attempt, p_result, p_gathered, m_pc, m_pages, m_concurrency,
                   m_search_client, m_product_client, m_error, s_page, s_results, s_fetched,
                   s_stopped, n_pc, n_page_id, n_slug, n_hint, n_raw, n_store_id, n_record>>

\* create_driver raises: "except Exception" of scrape_all_stores, then finally
SetupDriverFails ==
    /\ pc = "start"
    /\ LET s == setup_driver(active_proxy, current_proxy_index)
       IN  /\ current_proxy_index' = s.index
           /\ active_proxy' = s.active
    /\ termination' = "critical"
    /\ pc' = "finally"
    /\ UNCHANGED <<max_retries, stores_per_province, proxy_list, api_blocked, driver, prov,
                   store_num, store_count, all_data, saved, retry, data, qi, page, attempt,
                   use_browser_api, response, all_products, session_proxy, extract_result,
                   visited, live_drivers, prev_switched, gets, store_rot, cooldowns,
                   captcha_failed, gets_at_captcha, loop_reqs, backoffs, store_requested,
                   ret_reason, ret_products, req_after_ret, blocked_at_entry,
                   seen_4xx_direct, direct_after_4xx, reissue, first_via, f_pc,
                   f_max_attempts, f_client, f_scrapfly, f_attempt, f_fetches, f_result,
                   f_last, f_raised, f_exceptions, p_concurrency, p_urls, p_value, p_pc,
                   p_attempt, p_result, p_gathered, m_pc, m_pages, m_concurrency,
                   m_search_client, m_product_client, m_error, s_page, s_results, s_fetched,
                   s_stopped, n_pc, n_page_id, n_slug, n_hint, n_raw, n_store_id, n_record>>

\* for province, total_stores in self.WALMART_STORES_CANADA.items(): next row
NextProvince ==
    /\ pc = "province"
    /\ prov < NumProvinces
    /\ prov' = prov + 1
    /\ store_num' = 0
    /\ pc' = "store"
    /\ UNCHANGED <<max_retries, stores_per_province, proxy_list, api_blocked,
                   current_proxy_index, active_proxy, driver, store_count, all_data, saved,
                   termination, retry, data, qi, page, attempt, use_browser_api, response,
                   all_products, session_proxy, extract_result, visited, live_drivers,
                   prev_switched, gets, store_rot, cooldowns, captcha_failed,
                   gets_at_captcha, loop_reqs, backoffs, store_requested, ret_reason,
                   ret_products, req_after_ret, blocked_at_entry, seen_4xx_direct,
                   direct_after_4xx, reissue, first_via, f_pc, f_max_attempts, f_client,
                   f_scrapfly, f_attempt, f_fetches, f_result, f_last, f_raised,
                   f_exceptions, p_concurrency, p_urls, p_value, p_pc, p_attempt, p_result,
                   p_gathered, m_pc, m_pages, m_concurrency, m_search_client,
                   m_product_client, m_error, s_page, s_results, s_fetched, s_stopped, n_pc,
                   n_page_id, n_slug, n_hint, n_raw, n_store_id, n_record>>

\* the province loop is exhausted: save_data(all_data, output_file); return
SaveData ==
    /\ pc = "province"
    /\ prov >= NumProvinces
    /\ saved' = IF all_data > 0 THEN "full" ELSE "none"
    /\ termination' = "normal"
    /\ pc' = "finally"
    /\ UNCHANGED <<max_retries, stores_per_province, proxy_list, api_blocked,
                   current_proxy_index, active_proxy, driver, prov, store_num, store_count,
                   all_data, retry, data, qi, page, attempt, use_browser_api, response,
                   all_products, session_proxy, extract_result, visited, live_drivers,
                   prev_switched, gets, store_rot, cooldowns, captcha_failed,
                   gets_at_captcha, loop_reqs, backoffs, store_requested, ret_reason,
                   ret_products, req_after_ret, blocked_at_entry, seen_4xx_direct,
                   direct_after_4xx, reissue, first_via, f_pc, f_max_attempts, f_client,
                   f_scrapfly, f_attempt, f_fetches, f_result, f_last, f_raised,
                   f_exceptions, p_concurrency, p_urls, p_value, p_pc, p_attempt, p_result,
                   p_gathered, m_pc, m_pages, m_concurrency, m_search_client,
                   m_product_client, m_error, s_page, s_results, s_fetched, s_stopped, n_pc,
                   n_page_id, n_slug, n_hint, n_raw, n_store_id, n_record>>

\* for store_num in range(...): data = self.scrape_store_page(store_url)
CallScrapeStorePage ==
    /\ pc = "store"
    /\ store_num + 1 < RangeEnd(prov)
    /\ store_num' = store_num + 1
    /\ visited' = Append(visited, <<prov, store_num + 1>>)
    /\ retry' = 0
    /\ pc' = "page_get"
    /\ UNCHANGED <<max_retries, stores_per_province, proxy_list, api_blocked,
                   current_proxy_index, active_proxy, driver, prov, store_count, all_data,
                   saved, termination, data, qi, page, attempt, use_browser_api, response,
                   all_products, session_proxy, extract_result, live_drivers, prev_switched,
                   gets, store_rot, cooldowns, captcha_failed, gets_at_captcha, loop_reqs,
                   backoffs, store_requested, ret_reason, ret_products, req_after_ret,
                   blocked_at_entry, seen_4xx_direct, direct_after_4xx, reissue, first_via,
                   f_pc, f_max_attempts, f_client, f_scrapfly, f_attempt, f_fetches,
                   f_result, f_last, f_raised, f_exceptions, p_concurrency, p_urls, p_value,
                   p_pc, p_attempt, p_result, p_gathered, m_pc, m_pages, m_concurrency,
                   m_search_client, m_product_client, m_error, s_page, s_results, s_fetched,
                   s_stopped, n_pc, n_page_id, n_slug, n_hint, n_raw, n_store_id, n_record>>

\* the store range of the province is exhausted
ProvinceDone ==
    /\ pc = "store"
    /\ ~(store_num + 1 < RangeEnd(prov))
    /\ pc' = "province"
    /\ UNCHANGED <<max_retries, stores_per_province, proxy_list, api_blocked,
                   current_proxy_index, active_proxy, driver, prov, store_num, store_count,
                   all_data, saved, termination, retry, data, qi, page, attempt,
                   use_browser_api, response, all_products, session_proxy, extract_result,
                   visited, live_drivers, prev_switched, gets, store_rot, cooldowns,
                   captcha_failed, gets_at_captcha, loop_reqs, backoffs, store_requested,
                   ret_reason, ret_products, req_after_ret, blocked_at_entry,
                   seen_4xx_direct, direct_after_4xx, reissue, first_via, f_pc,
                   f_max_attempts, f_client, f_scrapfly, f_attempt, f_fetches, f_result,
                   f_last, f_raised, f_exceptions, p_concurrency, p_urls, p_value, p_pc,
                   p_attempt, p_result, p_gathered, m_pc, m_pages, m_concurrency,
                   m_search_client, m_product_client, m_error, s_page, s_results, s_fetched,
                   s_stopped, n_pc, n_page_id, n_slug, n_hint, n_raw, n_store_id, n_record>>

----------------------------------------------------------------------------
(* scrape_store_page *)

\* "if retry < self.max_retries - 1" of the except branch
MayRetry(r) == r < max_retries - 1

\* One attempt raises (driver.get, or page_source in _extract_store_metadata):
\* the except branch retries recursively while retry < max_retries - 1
PageLoadRaises ==
    /\ pc = "page_get"
    /\ gets' = gets + 1
    /\ IF MayRetry(retry)
       THEN /\ retry' = retry + 1
            /\ pc' = "page_get"
       ELSE /\ retry' = retry
            /\ pc' = "after_store"
    /\ data' = <<>>
    /\ UNCHANGED <<max_retries, stores_per_province, proxy_list, api_blocked,
                   current_proxy_index, active_proxy, driver, prov, store_num, store_count,
                   all_data, saved, termination, qi, page, attempt, use_browser_api,
                   response, all_products, session_proxy, extract_result, visited,
                   live_drivers, prev_switched, store_rot, cooldowns, captcha_failed,
                   gets_at_captcha, loop_reqs, backoffs, store_requested, ret_reason,
                   ret_products, req_after_ret, blocked_at_entry, seen_4xx_direct,
                   direct_after_4xx, reissue, first_via, f_pc, f_max_attempts, f_client,
                   f_scrapfly, f_attempt, f_fetches, f_result, f_last, f_raised,
                   f_exceptions, p_concurrency, p_urls, p_value, p_pc, p_attempt, p_result,
                   p_gathered, m_pc, m_pages, m_concurrency, m_search_client,
                   m_product_client, m_error, s_page, s_results, s_fetched, s_stopped, n_pc,
                   n_page_id, n_slug, n_hint, n_raw, n_store_id, n_record>>

\* cooldown_after_captcha(): time.sleep(cooldown); self.rotate_proxy()
cooldown_after_captcha(idx) == rotate_proxy(idx)

\* variant: after the cooldown the page load is retried like a failed attempt
CaptchaUnresolved_retry ==
    /\ pc = "page_get"
    /\ DriverLive
    /\ gets' = gets + 1
    /\ captcha_failed' = TRUE
    /\ gets_at_captcha' = gets + 1
    /\ cooldowns' = cooldowns + 1
    /\ LET r == cooldown_after_captcha(current_proxy_index)
       IN  /\ current_proxy_index' = r.index
           /\ active_proxy' = r.active
    /\ store_rot' = store_rot + 1
    /\ data' = <<>>
    /\ IF MayRetry(retry)
       THEN /\ retry' = retry + 1
            /\ pc' = "page_get"
       ELSE /\ retry' = retry
            /\ pc' = "after_store"
    /\ UNCHANGED <<max_retries, stores_per_province, proxy_list, api_blocked, driver, prov,
                   store_num, store_count, all_data, saved, termination, qi, page, attempt,
                   use_browser_api, response, all_products, session_proxy, extract_result,
                   visited, live_drivers, prev_switched, loop_reqs, backoffs,
                   store_requested, ret_reason, ret_products, req_after_ret,
                   blocked_at_entry, seen_4xx_direct, direct_after_4xx, reissue, first_via,
                   f_pc, f_max_attempts, f_client, f_scrapfly, f_attempt, f_fetches,
                   f_result, f_last, f_raised, f_exceptions, p_concurrency, p_urls, p_value,
                   p_pc, p_attempt, p_result, p_gathered, m_pc, m_pages, m_concurrency,
                   m_search_client, m_product_client, m_error, s_page, s_results, s_fetched,
                   s_stopped, n_pc, n_page_id, n_slug, n_hint, n_raw, n_store_id, n_record>>

\* The page loads, a CAPTCHA element is found and handle_captcha() is False:
\* cooldown_after_captcha() and return None
CaptchaUnresolved ==
    /\ pc = "page_get"
    /\ DriverLive
    /\ gets' = gets + 1
    /\ captcha_failed' = TRUE
    /\ gets_at_captcha' = gets + 1
    /\ cooldowns' = cooldowns + 1
    /\ LET r == cooldown_after_captcha(current_proxy_index)
       IN  /\ current_proxy_index' = r.index
           /\ active_proxy' = r.active
    /\ store_rot' = store_rot + 1
    /\ data' = <<>>
    /\ pc' = "after_store"
    /\ UNCHANGED <<max_retries, stores_per_province, proxy_list, api_blocked, driver, prov,
                   store_num, store_count, all_data, saved, termination, retry, qi, page,
                   attempt, use_browser_api, response, all_products, session_proxy,
                   extract_result, visited, live_drivers, prev_switched, loop_reqs, backoffs,
                   store_requested, ret_reason, ret_products, req_after_ret,
                   blocked_at_entry, seen_4xx_direct, direct_after_4xx, reissue, first_via,
                   f_pc, f_max_attempts, f_client, f_scrapfly, f_attempt, f_fetches,
                   f_result, f_last, f_raised, f_exceptions, p_concurrency, p_urls, p_value,
                   p_pc, p_attempt, p_result, p_gathered, m_pc, m_pages, m_concurrency,
                   m_search_client, m_product_client, m_error, s_page, s_results, s_fetched,
                   s_stopped, n_pc, n_page_id, n_slug, n_hint, n_raw, n_store_id, n_record>>

\* The page loads and no CAPTCHA blocks it (none found, it was solved, or
\* find_elements raised): the store record is built and the API is queried.
\* Every later statement of the call sits in a try block of its own, so the
\* retry branch is out of reach and retry is not read again.
PageLoaded ==
    /\ pc = "page_get"
    /\ DriverLive
    /\ gets' = 0
    /\ retry' = 0
    /\ pc' = "extract_begin"
    /\ UNCHANGED <<max_retries, stores_per_province, proxy_list, api_blocked,
                   current_proxy_index, active_proxy, driver, prov, store_num, store_count,
                   all_data, saved, termination, data, qi, page, attempt, use_browser_api,
                   response, all_products, session_proxy, extract_result, visited,
                   live_drivers, prev_switched, store_rot, cooldowns, captcha_failed,
                   gets_at_captcha, loop_reqs, backoffs, store_requested, ret_reason,
                   ret_products, req_after_ret, blocked_at_entry, seen_4xx_direct,
                   direct_after_4xx, reissue, first_via, f_pc, f_max_attempts, f_client,
                   f_scrapfly, f_attempt, f_fetches, f_result, f_last, f_raised,
                   f_exceptions, p_concurrency, p_urls, p_value, p_pc, p_attempt, p_result,
                   p_gathered, m_pc, m_pages, m_concurrency, m_search_client,
                   m_product_client, m_error, s_page, s_results, s_fetched, s_stopped, n_pc,
                   n_page_id, n_slug, n_hint, n_raw, n_store_id, n_record>>

\* variant: product_count keeps the 0 the record was created with
ProductCount_initial(products) == 0

\* data["product_count"] = len(data["products"]), on the length of the list
ProductCount(products) == products

\* data["products"].extend(api_products) unless the extraction raised;
\* data["product_count"] = len(data["products"]); return data
StoreRecord ==
    /\ pc = "store_record"
    /\ LET n == IF extract_result = "returned" THEN ret_products ELSE 0
       IN  data' = <<[products |-> n, product_count |-> ProductCount(n)]>>
    /\ ApiLocalsIdle
    /\ pc' = "after_store"
    /\ UNCHANGED <<max_retries, stores_per_province, proxy_list, api_blocked,
                   current_proxy_index, active_proxy, driver, prov, store_num, store_count,
                   all_data, saved, termination, retry, visited, live_drivers, prev_switched,
                   gets, store_rot, cooldowns, captcha_failed, gets_at_captcha, loop_reqs,
                   backoffs, store_requested, ret_reason, ret_products, req_after_ret,
                   blocked_at_entry, seen_4xx_direct, direct_after_4xx, reissue, first_via,
                   f_pc, f_max_attempts, f_client, f_scrapfly, f_attempt, f_fetches,
                   f_result, f_last, f_raised, f_exceptions, p_concurrency, p_urls, p_value,
                   p_pc, p_attempt, p_result, p_gathered, m_pc, m_pages, m_concurrency,
                   m_search_client, m_product_client, m_error, s_page, s_results, s_fetched,
                   s_stopped, n_pc, n_page_id, n_slug, n_hint, n_raw, n_store_id, n_record>>

----------------------------------------------------------------------------
(* scrape_all_stores: after scrape_store_page returned *)

\* store_count after "if data: all_data.append(data); store_count += 1"
CountAfter == IF data # <<>> THEN store_count + 1 ELSE store_count

\* if store_count % 10 == 0 and len(self.proxy_list) > 1
RotationDue(count) == count % RotateEvery = 0 /\ Len(proxy_list) > 1

\* the store is accounted for and no periodic rotation is due
AfterStore ==
    /\ pc = "after_store"
    /\ ~RotationDue(CountAfter)
    /\ store_count' = CountAfter
    /\ all_data' = IF data # <<>> THEN all_data + 1 ELSE all_data
    /\ prev_switched' = seen_4xx_direct
    /\ PageLocalsIdle
    /\ StoreHistIdle
    /\ pc' = "store"
    /\ UNCHANGED <<max_retries, stores_per_province, proxy_list, api_blocked,
                   current_proxy_index, active_proxy, driver, prov, store_num, saved,
                   termination, qi, page, attempt, use_browser_api, response, all_products,
                   session_proxy, extract_result, visited, live_drivers, f_pc,
                   f_max_attempts, f_client, f_scrapfly, f_attempt, f_fetches, f_result,
                   f_last, f_raised, f_exceptions, p_concurrency, p_urls, p_value, p_pc,
                   p_attempt, p_result, p_gathered, m_pc, m_pages, m_concurrency,
                   m_search_client, m_product_client, m_error, s_page, s_results, s_fetched,
                   s_stopped, n_pc, n_page_id, n_slug, n_hint, n_raw, n_store_id, n_record>>

\* periodic rotation: driver.quit(); rotate_proxy(); self.driver = setup_driver()
PeriodicRotation ==
    /\ pc = "after_store"
    /\ RotationDue(CountAfter)
    /\ store_count' = CountAfter
    /\ all_data' = IF data # <<>> THEN all_data + 1 ELSE all_data
    /\ LET r == rotate_proxy(current_proxy_index)
           s == setup_driver(r.active, r.index)
       IN  /\ driver' = NewDriver(s.proxy)
           /\ current_proxy_index' = s.index
           /\ active_proxy' = s.active
    /\ live_drivers' = LiveAfterQuit(driver, live_drivers) + 1
    /\ prev_switched' = seen_4xx_direct
    /\ PageLocalsIdle
    /\ StoreHistIdle
    /\ pc' = "store"
    /\ UNCHANGED <<max_retries, stores_per_province, proxy_list, api_blocked, prov,
                   store_num, saved, termination, qi, page, attempt, use_browser_api,
                   response, all_products, session_proxy, extract_result, visited, f_pc,
                   f_max_attempts, f_client, f_scrapfly, f_attempt, f_fetches, f_result,
                   f_last, f_raised, f_exceptions, p_concurrency, p_urls, p_value, p_pc,
                   p_attempt, p_result, p_gathered, m_pc, m_pages, m_concurrency,
                   m_search_client, m_product_client, m_error, s_page, s_results, s_fetched,
                   s_stopped, n_pc, n_page_id, n_slug, n_hint, n_raw, n_store_id, n_record>>

\* periodic rotation whose create_driver raises: the per-store
\* "except Exception: continue" leaves the quit driver in self.driver
PeriodicRotationFails ==
    /\ pc = "after_store"
    /\ RotationDue(CountAfter)
    /\ store_count' = CountAfter
    /\ all_data' = IF data # <<>> THEN all_data + 1 ELSE all_data
    /\ LET r == rotate_proxy(current_proxy_index)
           s == setup_driver(r.active, r.index)
       IN  /\ driver' = QuitDriver(driver)
           /\ current_proxy_index' = s.index
           /\ active_proxy' = s.active
    /\ live_drivers' = LiveAfterQuit(driver, live_drivers)
    /\ prev_switched' = seen_4xx_direct
    /\ PageLocalsIdle
    /\ StoreHistIdle
    /\ pc' = "store"
    /\ UNCHANGED <<max_retries, stores_per_province, proxy_list, api_blocked, prov,
                   store_num, saved, termination, qi, page, attempt, use_browser_api,
                   response, all_products, session_proxy, extract_result, visited, f_pc,
                   f_max_attempts, f_client, f_scrapfly, f_attempt, f_fetches, f_result,
                   f_last, f_raised, f_exceptions, p_concurrency, p_urls, p_value, p_pc,
                   p_attempt, p_result, p_gathered, m_pc, m_pages, m_concurrency,
                   m_search_client, m_product_client, m_error, s_page, s_results, s_fetched,
                   s_stopped, n_pc, n_page_id, n_slug, n_hint, n_raw, n_store_id, n_record>>

\* variant: the partial file is written even when nothing was collected
PartialSave_always(n) == "partial"

\* except KeyboardInterrupt: if all_data: self.save_data(all_data,
\* f"partial_{output_file}"), on the number of collected store records
PartialSave(n) == IF n > 0 THEN "partial" ELSE "none"

\* KeyboardInterrupt inside the try block: it unwinds scrape_store_page, the
\* partial file is saved when all_data is non-empty, then the finally clause
KeyboardInterrupt ==
    /\ pc \notin {"idle", "finally", "done"}
    /\ saved' = PartialSave(all_data)
    /\ termination' = "interrupted"
    /\ PageLocalsIdle
    /\ ApiLocalsIdle
    /\ StoreHistIdle
    /\ pc' = "finally"
    /\ UNCHANGED <<max_retries, stores_per_province, proxy_list, api_blocked,
                   current_proxy_index, active_proxy, driver, prov, store_num, store_count,
                   all_data, visited, live_drivers, prev_switched, f_pc, f_max_attempts,
                   f_client, f_scrapfly, f_attempt, f_fetches, f_result, f_last, f_raised,
                   f_exceptions, p_concurrency, p_urls, p_value, p_pc, p_attempt, p_result,
                   p_gathered, m_pc, m_pages, m_concurrency, m_search_client,
                   m_product_client, m_error, s_page, s_results, s_fetched, s_stopped, n_pc,
                   n_page_id, n_slug, n_hint, n_raw, n_store_id, n_record>>

\* finally: if self.driver: self.driver.quit()
Finally ==
    /\ pc = "finally"
    /\ driver' = QuitDriver(driver)
    /\ live_drivers' = LiveAfterQuit(driver, live_drivers)
    /\ pc' = "done"
    /\ UNCHANGED <<max_retries, stores_per_province, proxy_list, api_blocked,
                   current_proxy_index, active_proxy, prov, store_num, store_count, all_data,
                   saved, termination, retry, data, qi, page, attempt, use_browser_api,
                   response, all_products, session_proxy, extract_result, visited,
                   prev_switched, gets, store_rot, cooldowns, captcha_failed,
                   gets_at_captcha, loop_reqs, backoffs, store_requested, ret_reason,
                   ret_products, req_after_ret, blocked_at_entry, seen_4xx_direct,
                   direct_after_4xx, reissue, first_via, f_pc, f_max_attempts, f_client,
                   f_scrapfly, f_attempt, f_fetches, f_result, f_last, f_raised,
                   f_exceptions, p_concurrency, p_urls, p_value, p_pc, p_attempt, p_result,
                   p_gathered, m_pc, m_pages, m_concurrency, m_search_client,
                   m_product_client, m_error, s_page, s_results, s_fetched, s_stopped, n_pc,
                   n_page_id, n_slug, n_hint, n_raw, n_store_id, n_record>>

----------------------------------------------------------------------------
(* _extract_products_via_api *)

\* The store URLs built by scrape_all_stores end in "store-<n>", so
\* _extract_store_metadata always finds a store id (slug fallback) and the
\* "if not store_id" branch is not taken.  self.driver is set whenever the
\* function runs, so the in-browser re-issue of the 4xx branch is made.

Via == IF use_browser_api THEN "browser" ELSE "direct"

\* variant: the repetition test is off by one ("if attempt == 2")
Is412Repeated_late(att) == att = 2

\* "if attempt == 1" of the 412 branch
Is412Repeated(att) == att = 1

\* variant: the blocked flag is not consulted
SkipBlockedApi_never(blocked) == FALSE

\* "if self.api_blocked: return []" at the top of the function
SkipBlockedApi(blocked) == blocked

\* "if 400 <= response_status < 500"
Is4xx(status) == 400 <= status /\ status < 500

\* "use_browser_api = False" before the query loop
InitialUseBrowserApi == FALSE

\* the function returns or raises: its locals, other than the list that is
\* returned, are gone
ReleaseLocals ==
    /\ qi' = 1 /\ page' = 1 /\ attempt' = 0 /\ use_browser_api' = FALSE
    /\ response' = NoResponse /\ session_proxy' = None

\* entry of the function: blocked check, session set-up, loop initialisation
ExtractBegin ==
    /\ pc = "extract_begin"
    /\ blocked_at_entry' = api_blocked
    /\ all_products' = 0
    /\ IF SkipBlockedApi(api_blocked)
       THEN /\ extract_result' = "returned"
            /\ ret_reason' = "blocked"
            /\ ret_products' = 0
            /\ pc' = "store_record"
            /\ UNCHANGED <<qi, page, use_browser_api, session_proxy>>
       ELSE /\ session_proxy' = active_proxy
            /\ use_browser_api' = InitialUseBrowserApi
            /\ qi' = 1
            /\ page' = 1
            /\ pc' = "page_loop"
            /\ UNCHANGED <<extract_result, ret_reason, ret_products>>
    /\ UNCHANGED <<max_retries, stores_per_province, proxy_list, api_blocked,
                   current_proxy_index, active_proxy, driver, prov, store_num, store_count,
                   all_data, saved, termination, retry, data, attempt, response, visited,
                   live_drivers, prev_switched, gets, store_rot, cooldowns, captcha_failed,
                   gets_at_captcha, loop_reqs, backoffs, store_requested, req_after_ret,
                   seen_4xx_direct, direct_after_4xx, reissue, first_via, f_pc,
                   f_max_attempts, f_client, f_scrapfly, f_attempt, f_fetches, f_result,
                   f_last, f_raised, f_exceptions, p_concurrency, p_urls, p_value, p_pc,
                   p_attempt, p_result, p_gathered, m_pc, m_pages, m_concurrency,
                   m_search_client, m_product_client, m_error, s_page, s_results, s_fetched,
                   s_stopped, n_pc, n_page_id, n_slug, n_hint, n_raw, n_store_id, n_record>>

\* while page <= max_pages: build params, response_status = None, and enter
\* "for attempt in range(2)"
WhileEnter ==
    /\ pc = "page_loop"
    /\ page <= max_pages
    /\ attempt' = 0
    /\ response' = NoResponse
    /\ loop_reqs' = <<>>
    /\ backoffs' = 0
    /\ reissue' = 0
    /\ prev_switched' = (prev_switched /\ ~store_requested)
    /\ pc' = "api_request"
    /\ UNCHANGED <<max_retries, stores_per_province, proxy_list, api_blocked,
                   current_proxy_index, active_proxy, driver, prov, store_num, store_count,
                   all_data, saved, termination, retry, data, qi, page, use_browser_api,
                   all_products, session_proxy, extract_result, visited, live_drivers, gets,
                   store_rot, cooldowns, captcha_failed, gets_at_captcha, store_requested,
                   ret_reason, ret_products, req_after_ret, blocked_at_entry,
                   seen_4xx_direct, direct_after_4xx, first_via, f_pc, f_max_attempts,
                   f_client, f_scrapfly, f_attempt, f_fetches, f_result, f_last, f_raised,
                   f_exceptions, p_concurrency, p_urls, p_value, p_pc, p_attempt, p_result,
                   p_gathered, m_pc, m_pages, m_concurrency, m_search_client,
                   m_product_client, m_error, s_page, s_results, s_fetched, s_stopped, n_pc,
                   n_page_id, n_slug, n_hint, n_raw, n_store_id, n_record>>

\* the while condition is false: the query is finished
WhileExit ==
    /\ pc = "page_loop"
    /\ ~(page <= max_pages)
    /\ prev_switched' = FALSE
    /\ pc' = "query_done"
    /\ UNCHANGED <<max_retries, stores_per_province, proxy_list, api_blocked,
                   current_proxy_index, active_proxy, driver, prov, store_num, store_count,
                   all_data, saved, termination, retry, data, qi, page, attempt,
                   use_browser_api, response, all_products, session_proxy, extract_result,
                   visited, live_drivers, gets, store_rot, cooldowns, captcha_failed,
                   gets_at_captcha, loop_reqs, backoffs, store_requested, ret_reason,
                   ret_products, req_after_ret, blocked_at_entry, seen_4xx_direct,
                   direct_after_4xx, reissue, first_via, f_pc, f_max_attempts, f_client,
                   f_scrapfly, f_attempt, f_fetches, f_result, f_last, f_raised,
                   f_exceptions, p_concurrency, p_urls, p_value, p_pc, p_attempt, p_result,
                   p_gathered, m_pc, m_pages, m_concurrency, m_search_client,
                   m_product_client, m_error, s_page, s_results, s_fetched, s_stopped, n_pc,
                   n_page_id, n_slug, n_hint, n_raw, n_store_id, n_record>>

\* variant: use_browser_api is re-initialised for every query
NextQuery_reset ==
    /\ pc = "query_done"
    /\ qi < Len(search_queries)
    /\ qi' = qi + 1
    /\ page' = 1
    /\ prev_switched' = FALSE
    /\ use_browser_api' = FALSE
    /\ pc' = "page_loop"
    /\ UNCHANGED <<max_retries, stores_per_province, proxy_list, api_blocked,
                   current_proxy_index, active_proxy, driver, prov, store_num, store_count,
                   all_data, saved, termination, retry, data, attempt, response,
                   all_products, session_proxy, extract_result, visited, live_drivers, gets,
                   store_rot, cooldowns, captcha_failed, gets_at_captcha, loop_reqs,
                   backoffs, store_requested, ret_reason, ret_products, req_after_ret,
                   blocked_at_entry, seen_4xx_direct, direct_after_4xx, reissue, first_via,
                   f_pc, f_max_attempts, f_client, f_scrapfly, f_attempt, f_fetches,
                   f_result, f_last, f_raised, f_exceptions, p_concurrency, p_urls, p_value,
                   p_pc, p_attempt, p_result, p_gathered, m_pc, m_pages, m_concurrency,
                   m_search_client, m_product_client, m_error, s_page, s_results, s_fetched,
                   s_stopped, n_pc, n_page_id, n_slug, n_hint, n_raw, n_store_id, n_record>>

\* for query, promo_hint in search_queries: next query, page = 1
NextQuery ==
    /\ pc = "query_done"
    /\ qi < Len(search_queries)
    /\ qi' = qi + 1
    /\ page' = 1
    /\ prev_switched' = FALSE
    /\ pc' = "page_loop"
    /\ UNCHANGED <<max_retries, stores_per_province, proxy_list, api_blocked,
                   current_proxy_index, active_proxy, driver, prov, store_num, store_count,
                   all_data, saved, termination, retry, data, attempt, use_browser_api,
                   response, all_products, session_proxy, extract_result, visited,
                   live_drivers, gets, store_rot, cooldowns, captcha_failed, gets_at_captcha,
                   loop_reqs, backoffs, store_requested, ret_reason, ret_products,
                   req_after_ret, blocked_at_entry, seen_4xx_direct, direct_after_4xx,
                   reissue, first_via, f_pc, f_max_attempts, f_client, f_scrapfly, f_attempt,
                   f_fetches, f_result, f_last, f_raised, f_exceptions, p_concurrency,
                   p_urls, p_value, p_pc, p_attempt, p_result, p_gathered, m_pc, m_pages,
                   m_concurrency, m_search_client, m_product_client, m_error, s_page,
                   s_results, s_fetched, s_stopped, n_pc, n_page_id, n_slug, n_hint, n_raw,
                   n_store_id, n_record>>

\* all queries done: return all_products
ExtractEnd ==
    /\ pc = "query_done"
    /\ qi >= Len(search_queries)
    /\ extract_result' = "returned"
    /\ ret_reason' = "end"
    /\ prev_switched' = FALSE
    /\ ret_products' = all_products
    /\ ReleaseLocals
    /\ pc' = "store_record"
    /\ UNCHANGED <<max_retries, stores_per_province, proxy_list, api_blocked,
                   current_proxy_index, active_proxy, driver, prov, store_num, store_count,
                   all_data, saved, termination, retry, data, all_products, visited,
                   live_drivers, gets, store_rot, cooldowns, captcha_failed, gets_at_captcha,
                   loop_reqs, backoffs, store_requested, req_after_ret, blocked_at_entry,
                   seen_4xx_direct, direct_after_4xx, reissue, first_via, f_pc,
                   f_max_attempts, f_client, f_scrapfly, f_attempt, f_fetches, f_result,
                   f_last, f_raised, f_exceptions, p_concurrency, p_urls, p_value, p_pc,
                   p_attempt, p_result, p_gathered, m_pc, m_pages, m_concurrency,
                   m_search_client, m_product_client, m_error, s_page, s_results, s_fetched,
                   s_stopped, n_pc, n_page_id, n_slug, n_hint, n_raw, n_store_id, n_record>>

\* One iteration of "for attempt in range(2)": the request (in-browser fetch or
\* session.get) and the 412 branch
ApiRequest ==
    /\ pc = "api_request"
    /\ \E r \in (IF use_browser_api THEN BrowserResponses ELSE DirectResponses) :
        /\ loop_reqs' = Append(loop_reqs,
                [query |-> qi, page |-> page, via |-> Via, status |-> r.status])
        /\ store_requested' = TRUE
        /\ first_via' = IF first_via = "" THEN Via ELSE first_via
        /\ direct_after_4xx' = (direct_after_4xx \/ (seen_4xx_direct /\ ~use_browser_api))
        /\ req_after_ret' = (req_after_ret \/ ret_reason # "")
        /\ IF r.status = 412
           THEN /\ backoffs' = backoffs + 1
                /\ IF Is412Repeated(attempt)
                   THEN \* rotate_proxy(); return all_products
                        /\ LET rp == rotate_proxy(current_proxy_index)
                           IN  /\ current_proxy_index' = rp.index
                               /\ active_proxy' = rp.active
                        /\ store_rot' = store_rot + 1
                        /\ extract_result' = "returned"
                        /\ ret_reason' = "412"
                        /\ ret_products' = all_products
                        /\ pc' = "store_record"
                        /\ ReleaseLocals
                   ELSE \* continue (the loop ends when range(2) is exhausted)
                        /\ IF attempt + 1 < RetryLoopAttempts
                           THEN /\ attempt' = attempt + 1
                                /\ pc' = "api_request"
                                /\ response' = response
                           ELSE /\ attempt' = attempt
                                /\ pc' = "handle_response"
                                /\ response' = r
                        /\ UNCHANGED <<current_proxy_index, active_proxy, store_rot,
                                       extract_result, ret_reason, ret_products,
                                       qi, page, use_browser_api, session_proxy>>
           ELSE \* break
                /\ response' = r
                /\ pc' = "handle_response"
                /\ UNCHANGED <<backoffs, attempt, current_proxy_index, active_proxy,
                               store_rot, extract_result, ret_reason, ret_products,
                               qi, page, use_browser_api, session_proxy>>
    /\ UNCHANGED <<max_retries, stores_per_province, proxy_list, api_blocked, driver, prov,
                   store_num, store_count, all_data, saved, termination, retry, data,
                   all_products, visited, live_drivers, prev_switched, gets, cooldowns,
                   captcha_failed, gets_at_captcha, blocked_at_entry, seen_4xx_direct,
                   reissue, f_pc, f_max_attempts, f_client, f_scrapfly, f_attempt, f_fetches,
                   f_result, f_last, f_raised, f_exceptions, p_concurrency, p_urls, p_value,
                   p_pc, p_attempt, p_result, p_gathered, m_pc, m_pages, m_concurrency,
                   m_search_client, m_product_client, m_error, s_page, s_results, s_fetched,
                   s_stopped, n_pc, n_page_id, n_slug, n_hint, n_raw, n_store_id, n_record>>

\* session.get raises (timeout, connection error): nothing in the function
\* catches it, scrape_store_page logs it and keeps an empty product list
ApiRequestRaises ==
    /\ pc = "api_request"
    /\ ~use_browser_api
    /\ loop_reqs' = Append(loop_reqs,
            [query |-> qi, page |-> page, via |-> Via, status |-> StatusNone])
    /\ store_requested' = TRUE
    /\ first_via' = IF first_via = "" THEN Via ELSE first_via
    /\ direct_after_4xx' = (direct_after_4xx \/ seen_4xx_direct)
    /\ req_after_ret' = (req_after_ret \/ ret_reason # "")
    /\ extract_result' = "raised"
    /\ ReleaseLocals
    /\ pc' = "store_record"
    /\ UNCHANGED <<max_retries, stores_per_province, proxy_list, api_blocked,
                   current_proxy_index, active_proxy, driver, prov, store_num, store_count,
                   all_data, saved, termination, retry, data, all_products, visited,
                   live_drivers, prev_switched, gets, store_rot, cooldowns, captcha_failed,
                   gets_at_captcha, backoffs, ret_reason, ret_products, blocked_at_entry,
                   seen_4xx_direct, reissue, f_pc, f_max_attempts, f_client, f_scrapfly,
                   f_attempt, f_fetches, f_result, f_last, f_raised, f_exceptions,
                   p_concurrency, p_urls, p_value, p_pc, p_attempt, p_result, p_gathered,
                   m_pc, m_pages, m_concurrency, m_search_client, m_product_client, m_error,
                   s_page, s_results, s_fetched, s_stopped, n_pc, n_page_id, n_slug, n_hint,
                   n_raw, n_store_id, n_record>>

\* Lines 829-882: debug dump, "status != 200 or not text" skip, JSON parsing,
\* item extraction, de-duplicated append and the paging decision, for the
\* response r that reaches them. seen_keys keeps one entry per (product_id,
\* product_url): a page adds only keys that were not collected before.
ProcessPage(r) ==
    IF r.status # 200 \/ r.body \in {"empty", None}
    THEN \* page += 1; continue
         /\ page' = page + 1
         /\ pc' = "page_loop"
         /\ all_products' = all_products
    ELSE IF r.body = "badjson"
    THEN \* json.loads raised: continue (page is not advanced)
         /\ page' = page
         /\ pc' = "page_loop"
         /\ all_products' = all_products
    ELSE IF r.body = "noitems"
    THEN \* if not items: break
         /\ page' = page
         /\ pc' = "query_done"
         /\ all_products' = all_products
    ELSE \E n \in 0..(MaxProducts - all_products) :
         /\ all_products' = all_products + n
         /\ IF r.body = "partial"
            THEN \* len(items) < itemsPerPage: break
                 /\ page' = page
                 /\ pc' = "query_done"
            ELSE /\ page' = page + 1
                 /\ pc' = "page_loop"

\* variant: the proxy is rotated but the flag is not set
mark_api_blocked_noflag(blocked, idx, active) ==
    IF blocked
    THEN [blocked |-> blocked, index |-> idx, active |-> active, rotations |-> 0]
    ELSE LET rp == rotate_proxy(idx)
         IN  [blocked |-> blocked, index |-> rp.index, active |-> rp.active,
              rotations |-> 1]

\* _mark_api_blocked(): the new api_blocked, the proxy state and the number
\* of rotate_proxy calls made
mark_api_blocked(blocked, idx, active) ==
    IF blocked
    THEN [blocked |-> blocked, index |-> idx, active |-> active, rotations |-> 0]
    ELSE LET rp == rotate_proxy(idx)
         IN  [blocked |-> TRUE, index |-> rp.index, active |-> rp.active, rotations |-> 1]

\* if response_status == 456: self._mark_api_blocked(...); return all_products
MarkApiBlocked ==
    /\ pc = "handle_response"
    /\ response.status = 456
    /\ LET m == mark_api_blocked(api_blocked, current_proxy_index, active_proxy)
       IN  /\ api_blocked' = m.blocked
           /\ current_proxy_index' = m.index
           /\ active_proxy' = m.active
           /\ store_rot' = store_rot + m.rotations
    /\ extract_result' = "returned"
    /\ ret_reason' = "456"
    /\ ret_products' = all_products
    /\ ReleaseLocals
    /\ pc' = "store_record"
    /\ UNCHANGED <<max_retries, stores_per_province, proxy_list, driver, prov, store_num,
                   store_count, all_data, saved, termination, retry, data, all_products,
                   visited, live_drivers, prev_switched, gets, cooldowns, captcha_failed,
                   gets_at_captcha, loop_reqs, backoffs, store_requested, req_after_ret,
                   blocked_at_entry, seen_4xx_direct, direct_after_4xx, reissue, first_via,
                   f_pc, f_max_attempts, f_client, f_scrapfly, f_attempt, f_fetches,
                   f_result, f_last, f_raised, f_exceptions, p_concurrency, p_urls, p_value,
                   p_pc, p_attempt, p_result, p_gathered, m_pc, m_pages, m_concurrency,
                   m_search_client, m_product_client, m_error, s_page, s_results, s_fetched,
                   s_stopped, n_pc, n_page_id, n_slug, n_hint, n_raw, n_store_id, n_record>>

\* the in-browser fetch of the retry loop gave (None, None):
\* "400 <= response_status" raises TypeError, which leaves the function
StatusTypeError ==
    /\ pc = "handle_response"
    /\ response.status = StatusNone
    /\ extract_result' = "raised"
    /\ ReleaseLocals
    /\ pc' = "store_record"
    /\ UNCHANGED <<max_retries, stores_per_province, proxy_list, api_blocked,
                   current_proxy_index, active_proxy, driver, prov, store_num, store_count,
                   all_data, saved, termination, retry, data, all_products, visited,
                   live_drivers, prev_switched, gets, store_rot, cooldowns, captcha_failed,
                   gets_at_captcha, loop_reqs, backoffs, store_requested, ret_reason,
                   ret_products, req_after_ret, blocked_at_entry, seen_4xx_direct,
                   direct_after_4xx, reissue, first_via, f_pc, f_max_attempts, f_client,
                   f_scrapfly, f_attempt, f_fetches, f_result, f_last, f_raised,
                   f_exceptions, p_concurrency, p_urls, p_value, p_pc, p_attempt, p_result,
                   p_gathered, m_pc, m_pages, m_concurrency, m_search_client,
                   m_product_client, m_error, s_page, s_results, s_fetched, s_stopped, n_pc,
                   n_page_id, n_slug, n_hint, n_raw, n_store_id, n_record>>

\* 4xx: use_browser_api = True and, self.driver being set, the request is
\* re-issued through the browser; the new response replaces response_status
\* and response_text and is processed as a page
BrowserFallback ==
    /\ pc = "handle_response"
    /\ response.status \notin {456, StatusNone}
    /\ Is4xx(response.status)
    /\ use_browser_api' = TRUE
    /\ seen_4xx_direct' = (seen_4xx_direct \/ ~use_browser_api)
    /\ reissue' = reissue + 1
    /\ store_requested' = TRUE
    /\ \E r2 \in BrowserResponses :
        /\ ProcessPage(r2)
        /\ response' = r2
    /\ loop_reqs' = <<>>
    /\ backoffs' = 0
    /\ UNCHANGED <<max_retries, stores_per_province, proxy_list, api_blocked,
                   current_proxy_index, active_proxy, driver, prov, store_num, store_count,
                   all_data, saved, termination, retry, data, qi, attempt, session_proxy,
                   extract_result, visited, live_drivers, prev_switched, gets, store_rot,
                   cooldowns, captcha_failed, gets_at_captcha, ret_reason, ret_products,
                   req_after_ret, blocked_at_entry, direct_after_4xx, first_via, f_pc,
                   f_max_attempts, f_client, f_scrapfly, f_attempt, f_fetches, f_result,
                   f_last, f_raised, f_exceptions, p_concurrency, p_urls, p_value, p_pc,
                   p_attempt, p_result, p_gathered, m_pc, m_pages, m_concurrency,
                   m_search_client, m_product_client, m_error, s_page, s_results, s_fetched,
                   s_stopped, n_pc, n_page_id, n_slug, n_hint, n_raw, n_store_id, n_record>>

\* any other status: the response of the retry loop is processed as a page
ProcessResponse ==
    /\ pc = "handle_response"
    /\ response.status \notin {456, StatusNone}
    /\ ~Is4xx(response.status)
    /\ ProcessPage(response)
    /\ response' = NoResponse
    /\ loop_reqs' = <<>>
    /\ backoffs' = 0
    /\ UNCHANGED <<max_retries, stores_per_province, proxy_list, api_blocked,
                   current_proxy_index, active_proxy, driver, prov, store_num, store_count,
                   all_data, saved, termination, retry, data, qi, attempt, use_browser_api,
                   session_proxy, extract_result, visited, live_drivers, prev_switched, gets,
                   store_rot, cooldowns, captcha_failed, gets_at_captcha, store_requested,
                   ret_reason, ret_products, req_after_ret, blocked_at_entry,
                   seen_4xx_direct, direct_after_4xx, reissue, first_via, f_pc,
                   f_max_attempts, f_client, f_scrapfly, f_attempt, f_fetches, f_result,
                   f_last, f_raised, f_exceptions, p_concurrency, p_urls, p_value, p_pc,
                   p_attempt, p_result, p_gathered, m_pc, m_pages, m_concurrency,
                   m_search_client, m_product_client, m_error, s_page, s_results, s_fetched,
                   s_stopped, n_pc, n_page_id, n_slug, n_hint, n_raw, n_store_id, n_record>>

----------------------------------------------------------------------------
(* Initial states and next-state relation of the Canada scraper *)

FetchIdle ==
    /\ f_pc = "idle" /\ f_max_attempts = 0 /\ f_client = FALSE /\ f_scrapfly = FALSE
    /\ f_attempt = 0 /\ f_fetches = 0 /\ f_result = <<>> /\ f_last = <<>>
    /\ f_raised = FALSE /\ f_exceptions = 0

ProductIdle ==
    /\ p_concurrency = 0 /\ p_urls = 0 /\ p_value = 0 /\ p_pc = <<>>
    /\ p_attempt = <<>> /\ p_result = <<>> /\ p_gathered = FALSE

MainIdle ==
    /\ m_pc = "idle" /\ m_pages = 0 /\ m_concurrency = 0
    /\ m_search_client = "none" /\ m_product_client = "none" /\ m_error = FALSE
    /\ s_page = 0 /\ s_results = <<>> /\ s_fetched = <<>> /\ s_stopped = 0

RecordIdle ==
    /\ n_pc = "idle" /\ n_page_id = "" /\ n_slug = "" /\ n_hint = ""
    /\ n_raw = <<>> /\ n_store_id = "" /\ n_record = <<>>

CanadaState(start) ==
    /\ api_blocked = FALSE /\ current_proxy_index = 0 /\ active_proxy = None
    /\ driver = <<>>
    /\ pc = start /\ prov = 0 /\ store_num = 0 /\ store_count = 0 /\ all_data = 0
    /\ saved = "none" /\ termination = "" /\ retry = 0 /\ data = <<>>
    /\ qi = 1 /\ page = 1 /\ attempt = 0 /\ use_browser_api = FALSE
    /\ response = NoResponse /\ all_products = 0 /\ session_proxy = None
    /\ extract_result = ""
    /\ visited = <<>> /\ live_drivers = 0 /\ prev_switched = FALSE
    /\ gets = 0 /\ store_rot = 0 /\ cooldowns = 0
    /\ captcha_failed = FALSE /\ gets_at_captcha = 0 /\ loop_reqs = <<>> /\ backoffs = 0
    /\ store_requested = FALSE /\ ret_reason = "" /\ ret_products = 0
    /\ req_after_ret = FALSE /\ blocked_at_entry = FALSE /\ seen_4xx_direct = FALSE
    /\ direct_after_4xx = FALSE /\ reissue = 0 /\ first_via = ""

CanadaIdle ==
    /\ max_retries = 0 /\ stores_per_province = <<>> /\ proxy_list = <<>>
    /\ CanadaState("idle")

\* WalmartCanadaScraper.__init__ followed by the call of scrape_all_stores
Init ==
    /\ max_retries \in 0..MaxRetriesBound
    /\ stores_per_province \in {<<>>} \cup {<<n>> : n \in 0..MaxSppBound}
    /\ proxy_list \in ProxyLists
    /\ CanadaState("start")
    /\ FetchIdle
    /\ ProductIdle
    /\ MainIdle
    /\ RecordIdle

Next ==
    \/ SetupDriver
    \/ SetupDriverFails
    \/ NextProvince
    \/ SaveData
    \/ CallScrapeStorePage
    \/ ProvinceDone
    \/ PageLoadRaises
    \/ CaptchaUnresolved
    \/ PageLoaded
    \/ StoreRecord
    \/ AfterStore
    \/ PeriodicRotation
    \/ PeriodicRotationFails
    \/ KeyboardInterrupt
    \/ Finally
    \/ ExtractBegin
    \/ WhileEnter
    \/ WhileExit
    \/ NextQuery
    \/ ExtractEnd
    \/ ApiRequest
    \/ ApiRequestRaises
    \/ MarkApiBlocked
    \/ StatusTypeError
    \/ BrowserFallback
    \/ ProcessResponse

Spec == Init /\ [][Next]_vars

\* The interpreter keeps executing the program: as long as some statement
\* can run, one does.
SpecLive == Init /\ [][Next]_vars /\ WF_vars(Next)
----------------------------------------------------------------------------
(* Properties of the Canada scraper *)

ExtractionPcs == {"page_loop", "api_request", "handle_response", "query_done"}

Last(seq) == seq[Len(seq)]

\* C1: in _extract_products_via_api a 412 answer to a page request is
\* followed by one backoff and exactly one retry of the same request (same
\* query, same page); a second 412 is followed by a backoff, exactly one
\* rotate_proxy and the immediate return of the products collected so far;
\* one run of the retry loop never issues more than 2 requests.
C1_Retry412 ==
    /\ Len(loop_reqs) <= 2
    /\ backoffs = Cardinality({i \in 1..Len(loop_reqs) : loop_reqs[i].status = 412})
    /\ (Len(loop_reqs) = 2) =>
            /\ loop_reqs[1].status = 412
            /\ loop_reqs[2].query = loop_reqs[1].query
            /\ loop_reqs[2].page = loop_reqs[1].page
    /\ (Len(loop_reqs) = 1 /\ loop_reqs[1].status = 412) =>
            /\ pc = "api_request"
            /\ attempt = 1
            /\ qi = loop_reqs[1].query
            /\ page = loop_reqs[1].page
    /\ (Len(loop_reqs) = 2 /\ loop_reqs[2].status = 412) =>
            /\ pc \in {"store_record", "after_store"}
            /\ ret_reason = "412"
            /\ store_rot = 1
            /\ pc = "store_record" =>
                    (extract_result = "returned" /\ ret_products = all_products)
            /\ pc = "after_store" =>
                    (data # <<>> /\ data[1].products = ret_products)
    /\ (ret_reason = "412") => (Len(loop_reqs) = 2 /\ loop_reqs[2].status = 412)

\* a store whose extraction ended on a repeated 412 after products were collected
C1_Witness ==
    /\ pc = "store_record"
    /\ ret_reason = "412"
    /\ Len(loop_reqs) = 2
    /\ ret_products > 0
    /\ Len(proxy_list) = 2

\* C2: when the response leaving the 412 retry loop has status 456,
\* api_blocked becomes true, rotate_proxy is called exactly once, no further
\* request is issued for the store and the products collected so far are
\* returned.
C2_Blocked456 ==
    /\ (loop_reqs # <<>> /\ Last(loop_reqs).status = 456 /\ pc # "handle_response") =>
            /\ ret_reason = "456"
            /\ api_blocked
            /\ store_rot = 1
            /\ ~req_after_ret
            /\ pc \in {"store_record", "after_store"}
            /\ pc = "store_record" =>
                    (extract_result = "returned" /\ ret_products = all_products)
            /\ pc = "after_store" =>
                    (data # <<>> /\ data[1].products = ret_products)
    /\ (ret_reason = "456") => (loop_reqs # <<>> /\ Last(loop_reqs).status = 456)

\* the extraction of a store returned on a 456 with products already collected
C2_Witness ==
    /\ pc = "store_record"
    /\ ret_reason = "456"
    /\ api_blocked
    /\ ret_products > 0
    /\ Len(proxy_list) = 2

\* C3: api_blocked is monotonic (never reset once true, not even by a proxy
\* rotation) and every later call of _extract_products_via_api returns an
\* empty list without issuing a direct or in-browser API request.
C3_BlockedState ==
    /\ api_blocked => pc \notin ExtractionPcs
    /\ (blocked_at_entry /\ pc \in {"store_record", "after_store"}) =>
            /\ ret_reason = "blocked"
            /\ ret_products = 0
            /\ ~store_requested
            /\ pc = "after_store" => (data # <<>> /\ data[1].products = 0)

C3_BlockedForever ==
    /\ []C3_BlockedState
    /\ [][api_blocked => api_blocked']_vars

\* a store scraped after the API was flagged as blocked, after a rotation
C3_Witness ==
    /\ blocked_at_entry
    /\ pc = "store_record"
    /\ Len(visited) >= 2
    /\ current_proxy_index >= 1

\* C4: a direct-HTTP response with a 4xx status other than 412 and 456
\* switches the extraction to in-browser fetch: the request is re-issued once
\* through the browser, every later request of that store goes through the
\* browser, and the next store's extraction starts with direct HTTP again.
C4_SwitchState ==
    /\ ~direct_after_4xx
    /\ (seen_4xx_direct /\ pc \in ExtractionPcs) => use_browser_api
    /\ first_via \in {"", "direct"}
    /\ reissue <= 1

C4_Direct4xx ==
    /\ pc = "handle_response"
    /\ ~use_browser_api
    /\ Is4xx(response.status)
    /\ response.status \notin {412, 456}

C4_BrowserSwitch ==
    /\ []C4_SwitchState
    /\ [][(C4_Direct4xx /\ pc' # "finally") =>
            (use_browser_api' /\ reissue' = 1 /\ seen_4xx_direct'
             /\ qi' = qi /\ page' \in {page, page + 1})]_vars

\* the previous store switched to the browser; this store started with direct
\* HTTP, received a 4xx, re-issued the request once through the browser and
\* goes on in browser mode
C4_Witness ==
    /\ prev_switched
    /\ Len(visited) >= 2
    /\ first_via = "direct"
    /\ seen_4xx_direct
    /\ reissue = 1
    /\ use_browser_api
    /\ pc = "page_loop"
    /\ page <= max_pages

\* C5: scrape_store_page performs at most max_retries page-load attempts
\* (driver.get) for one store URL, for every integer max_retries; a new
\* attempt starts only after the previous one raised, and None is returned
\* once every attempt has raised.
C5_AtMostMaxRetries ==
    /\ gets <= max_retries
    /\ (pc = "page_get") => (gets = retry)

\* C6: when a CAPTCHA is detected and handle_captcha returns False,
\* scrape_store_page returns None without retrying the page load and without
\* any product-search API request, after one cooldown and exactly one proxy
\* rotation.
C6_CaptchaSkip ==
    captcha_failed =>
        /\ pc = "after_store"
        /\ data = <<>>
        /\ gets = gets_at_captcha
        /\ ~store_requested
        /\ cooldowns = 1
        /\ store_rot = 1

\* the CAPTCHA was left unresolved while a retry was still allowed
C6_Witness ==
    /\ captcha_failed
    /\ pc = "after_store"
    /\ MayRetry(retry)
    /\ Len(proxy_list) = 2

\* the visits the claim C9 prescribes: for each province in table order the
\* stores 1..min(stores_per_province, total), all stores when None
ClaimedCount(p) ==
    IF stores_per_province = <<>> THEN total_stores(p)
    ELSE Min(stores_per_province[1], total_stores(p))

RECURSIVE ClaimedVisits(_)
ClaimedVisits(p) ==
    IF p > NumProvinces THEN <<>>
    ELSE [i \in 1..(IF ClaimedCount(p) > 0 THEN ClaimedCount(p) ELSE 0) |-> <<p, i>>]
         \o ClaimedVisits(p + 1)

IsPrefix(s, t) == Len(s) <= Len(t) /\ \A i \in 1..Len(s) : s[i] = t[i]

\* C9: for each province, in table order, scrape_all_stores invokes
\* scrape_store_page for store numbers 1..min(stores_per_province, total) in
\* increasing order, for every integer stores_per_province, and scrapes all
\* stores of a province only when stores_per_province is None.
C9_StoresPerProvince ==
    /\ IsPrefix(visited, ClaimedVisits(1))
    /\ (termination = "normal") => (visited = ClaimedVisits(1))

\* C13: every store record returned by scrape_store_page has product_count
\* equal to the number of entries of its products list, and that list is the
\* list returned by _extract_products_via_api for the store (empty when the
\* extraction raised).
C13_StoreRecord ==
    (data # <<>>) =>
        /\ pc = "after_store"
        /\ data[1].product_count = data[1].products
        /\ data[1].products = ret_products
        /\ (ret_reason = "") => (data[1].products = 0)

\* a record whose extraction returned products after the last query
C13_Witness ==
    /\ data # <<>>
    /\ ret_reason = "end"
    /\ data[1].product_count > 0

C15_InterruptState ==
    /\ (termination = "interrupted") =>
           /\ pc \in {"finally", "done"}
           /\ saved = (IF all_data > 0 THEN "partial" ELSE "none")
    /\ (saved = "full") => (termination = "normal")
    /\ (saved = "partial") => (termination = "interrupted")

C16_RoundRobinState ==
    LET n == Len(proxy_list)
        k == current_proxy_index + 1
        r == rotate_proxy(current_proxy_index)
    IN  /\ active_proxy = None \/ (\E i \in 1..Len(proxy_list) : active_proxy = proxy_list[i])
        /\ current_proxy_index >= 0
        /\ (n > 0) =>
               /\ r.ret = proxy_list[((k - 1) % n) + 1]
               /\ r.active = r.ret
               /\ r.index = current_proxy_index + 1
        /\ (n = 0) =>
               /\ r.ret = None
               /\ r.active = None
               /\ r.index = current_proxy_index
               /\ current_proxy_index = 0
        /\ (active_proxy # None) =>
               /\ current_proxy_index >= 1
               /\ active_proxy = proxy_list[((current_proxy_index - 1) % n) + 1]

C16_RoundRobinStep ==
    /\ proxy_list' = proxy_list
    /\ current_proxy_index' \in {current_proxy_index, current_proxy_index + 1}
    /\ (current_proxy_index' = current_proxy_index) =>
           (active_proxy' = active_proxy \/ Len(proxy_list) = 0)
    /\ (current_proxy_index' = current_proxy_index + 1) =>
           (active_proxy' = proxy_list[(current_proxy_index % Len(proxy_list)) + 1])

C16_RoundRobin == []C16_RoundRobinState /\ [][C16_RoundRobinStep]_vars

C16_Witness ==
    /\ Len(proxy_list) = 2
    /\ current_proxy_index = 3
    /\ active_proxy = "p1"

\* C18: _extract_products_via_api always terminates: whatever statuses and
\* bodies the server returns, a running extraction is eventually left (by
\* return or by an exception).
C18_Terminates ==
    (pc \in ExtractionPcs \cup {"extract_begin"}) ~>
        (pc \notin ExtractionPcs \cup {"extract_begin"})

\* C19: a response without a status, (None, None) from the in-browser fetch,
\* is treated like a non-200 response: the function moves to the next page
\* without raising and keeps the products collected so far.
C19_NoStatusStep ==
    (pc = "handle_response" /\ response.status = StatusNone /\ pc' # "finally") =>
        /\ pc' = "page_loop"
        /\ page' = page + 1
        /\ all_products' = all_products
        /\ extract_result' # "raised"

C19_NoStatusSkipsPage == [][C19_NoStatusStep]_vars

\* C20: no 456 or 412 status is processed as an ordinary page: a step that
\* runs the page processing (debug dump, non-200 skip, parsing) does so
\* neither on a response of the retry loop nor on a response of the
\* in-browser re-issue that carries one of these statuses.
C20_BlockStatusStep ==
    (pc = "handle_response" /\ pc' \in {"page_loop", "query_done"}) =>
        /\ response.status \notin {412, 456}
        /\ response'.status \notin {412, 456}

C20_BlockStatusHandled == [][C20_BlockStatusStep]_vars

C22_RotationStep ==
    (/\ pc = "after_store"
     /\ pc' = "store"
     /\ current_proxy_index' # current_proxy_index) =>
        /\ Len(proxy_list) > 1
        /\ data # <<>>
        /\ store_count' = store_count + 1
        /\ store_count' > 0
        /\ store_count' % RotateEvery = 0

C22_PeriodicRotation == [][C22_RotationStep]_vars
----------------------------------------------------------------------------
(* walmart_scraper/utils.py: fetch_html *)

\* Bounds of the fetch_html model
MaxAttemptsBound == 3  \* largest max_attempts explored
MaxTokens == 2         \* a response text is made of at most this many fragments

\* A response text is a set of fragments.  Parts(t) are the search strings
\* that occur inside the fragment t (Python "in" on str), Lower(t) is
\* t.lower().
Fragments ==
    {"Robot or human", "CAPTCHA", "captcha", "/blocked?", "Request blocked",
     "__NEXT_DATA__", "__next_data__"}

Lower(t) ==
    CASE t = "Robot or human" -> "robot or human"
      [] t = "CAPTCHA" -> "captcha"
      [] t = "Request blocked" -> "request blocked"
      [] t = "__NEXT_DATA__" -> "__next_data__"
      [] OTHER -> t

Parts(t) ==
    CASE t = "/blocked?" -> {"/blocked?", "blocked"}
      [] t = "request blocked" -> {"request blocked", "blocked"}
      [] t = "Request blocked" -> {"Request blocked", "blocked"}
      [] OTHER -> {t}

\* s in text
Contains(text, s) == \E t \in text : s \in Parts(t)

\* text.lower()
LowerText(text) == {Lower(t) : t \in text}

BLOCK_MARKERS == {"Robot or human", "captcha", "blocked", "/blocked?", "Request blocked"}

BlockedStatuses == {403, 429, 456, 503}

FetchStatuses == BlockedStatuses \cup {200, 404}

Texts == {text \in SUBSET Fragments : Cardinality(text) <= MaxTokens}

FetchResponses == [status : FetchStatuses, text : Texts]

\* variant: the markers are searched without lower-casing the text
IsBlocked_casesensitive(status, text) ==
    \/ status \in BlockedStatuses
    \/ \E m \in BLOCK_MARKERS : Contains(text, m)

\* status in (403, 429, 456, 503) or any(m.lower() in text.lower() for m in BLOCK_MARKERS)
IsBlocked(status, text) ==
    \/ status \in BlockedStatuses
    \/ \E m \in BLOCK_MARKERS : Contains(LowerText(text), Lower(m))

\* "__NEXT_DATA__" in text
HasNextData(text) == Contains(text, "__NEXT_DATA__")

\* variant: the handler lets the error escape
CatchesException_not == FALSE

\* "except Exception as e" around the body of an attempt
CatchesException == TRUE

\* for attempt in range(1, max_attempts + 1)
FetchLooping == f_pc = "loop" /\ f_attempt <= f_max_attempts

\* an attempt receives a response (ScrapFly result or httpx response)
FetchResponse ==
    /\ FetchLooping
    /\ f_scrapfly \/ f_client
    /\ \E r \in FetchResponses :
        /\ f_last' = <<r>>
        /\ IF IsBlocked(r.status, r.text) \/ ~HasNextData(r.text)
           THEN \* sleep; continue
                /\ f_attempt' = f_attempt + 1
                /\ f_pc' = "loop"
                /\ f_result' = f_result
           ELSE \* return text
                /\ f_attempt' = f_attempt
                /\ f_pc' = "done"
                /\ f_result' = <<r.text>>
    /\ f_fetches' = f_fetches + 1
    /\ UNCHANGED <<max_retries, stores_per_province, proxy_list, api_blocked,
                   current_proxy_index, active_proxy, driver, pc, prov, store_num,
                   store_count, all_data, saved, termination, retry, data, qi, page, attempt,
                   use_browser_api, response, all_products, session_proxy, extract_result,
                   visited, live_drivers, prev_switched, gets, store_rot, cooldowns,
                   captcha_failed, gets_at_captcha, loop_reqs, backoffs, store_requested,
                   ret_reason, ret_products, req_after_ret, blocked_at_entry,
                   seen_4xx_direct, direct_after_4xx, reissue, first_via, f_max_attempts,
                   f_client, f_scrapfly, f_raised, f_exceptions, p_concurrency, p_urls,
                   p_value, p_pc, p_attempt, p_result, p_gathered, m_pc, m_pages,
                   m_concurrency, m_search_client, m_product_client, m_error, s_page,
                   s_results, s_fetched, s_stopped, n_pc, n_page_id, n_slug, n_hint, n_raw,
                   n_store_id, n_record>>

\* the fetch of an attempt raises (transport error, ScrapFly error)
FetchRaises ==
    /\ FetchLooping
    /\ f_scrapfly \/ f_client
    /\ f_fetches' = f_fetches + 1
    /\ f_exceptions' = f_exceptions + 1
    /\ IF CatchesException
       THEN /\ f_attempt' = f_attempt + 1
            /\ UNCHANGED <<f_pc, f_raised>>
       ELSE /\ f_raised' = TRUE
            /\ f_pc' = "done"
            /\ f_attempt' = f_attempt
    /\ UNCHANGED <<max_retries, stores_per_province, proxy_list, api_blocked,
                   current_proxy_index, active_proxy, driver, pc, prov, store_num,
                   store_count, all_data, saved, termination, retry, data, qi, page, attempt,
                   use_browser_api, response, all_products, session_proxy, extract_result,
                   visited, live_drivers, prev_switched, gets, store_rot, cooldowns,
                   captcha_failed, gets_at_captcha, loop_reqs, backoffs, store_requested,
                   ret_reason, ret_products, req_after_ret, blocked_at_entry,
                   seen_4xx_direct, direct_after_4xx, reissue, first_via, f_max_attempts,
                   f_client, f_scrapfly, f_result, f_last, p_concurrency, p_urls, p_value,
                   p_pc, p_attempt, p_result, p_gathered, m_pc, m_pages, m_concurrency,
                   m_search_client, m_product_client, m_error, s_page, s_results, s_fetched,
                   s_stopped, n_pc, n_page_id, n_slug, n_hint, n_raw, n_store_id, n_record>>

\* no ScrapFly client and client is None: RuntimeError raised inside the try
FetchNoClient ==
    /\ FetchLooping
    /\ ~f_scrapfly /\ ~f_client
    /\ f_exceptions' = f_exceptions + 1
    /\ IF CatchesException
       THEN /\ f_attempt' = f_attempt + 1
            /\ UNCHANGED <<f_pc, f_raised>>
       ELSE /\ f_raised' = TRUE
            /\ f_pc' = "done"
            /\ f_attempt' = f_attempt
    /\ UNCHANGED <<max_retries, stores_per_province, proxy_list, api_blocked,
                   current_proxy_index, active_proxy, driver, pc, prov, store_num,
                   store_count, all_data, saved, termination, retry, data, qi, page, attempt,
                   use_browser_api, response, all_products, session_proxy, extract_result,
                   visited, live_drivers, prev_switched, gets, store_rot, cooldowns,
                   captcha_failed, gets_at_captcha, loop_reqs, backoffs, store_requested,
                   ret_reason, ret_products, req_after_ret, blocked_at_entry,
                   seen_4xx_direct, direct_after_4xx, reissue, first_via, f_max_attempts,
                   f_client, f_scrapfly, f_fetches, f_result, f_last, p_concurrency, p_urls,
                   p_value, p_pc, p_attempt, p_result, p_gathered, m_pc, m_pages,
                   m_concurrency, m_search_client, m_product_client, m_error, s_page,
                   s_results, s_fetched, s_stopped, n_pc, n_page_id, n_slug, n_hint, n_raw,
                   n_store_id, n_record>>

\* the loop is exhausted: log and return None
FetchExhausted ==
    /\ f_pc = "loop"
    /\ f_attempt > f_max_attempts
    /\ f_result' = <<>>
    /\ f_pc' = "done"
    /\ UNCHANGED <<max_retries, stores_per_province, proxy_list, api_blocked,
                   current_proxy_index, active_proxy, driver, pc, prov, store_num,
                   store_count, all_data, saved, termination, retry, data, qi, page, attempt,
                   use_browser_api, response, all_products, session_proxy, extract_result,
                   visited, live_drivers, prev_switched, gets, store_rot, cooldowns,
                   captcha_failed, gets_at_captcha, loop_reqs, backoffs, store_requested,
                   ret_reason, ret_products, req_after_ret, blocked_at_entry,
                   seen_4xx_direct, direct_after_4xx, reissue, first_via, f_max_attempts,
                   f_client, f_scrapfly, f_attempt, f_fetches, f_last, f_raised,
                   f_exceptions, p_concurrency, p_urls, p_value, p_pc, p_attempt, p_result,
                   p_gathered, m_pc, m_pages, m_concurrency, m_search_client,
                   m_product_client, m_error, s_page, s_results, s_fetched, s_stopped, n_pc,
                   n_page_id, n_slug, n_hint, n_raw, n_store_id, n_record>>

\* a call fetch_html(url, client, max_attempts)
InitFetch ==
    /\ f_max_attempts \in 0..MaxAttemptsBound
    /\ f_client \in BOOLEAN
    /\ f_scrapfly \in BOOLEAN
    /\ f_pc = "loop" /\ f_attempt = 1 /\ f_fetches = 0 /\ f_result = <<>>
    /\ f_last = <<>> /\ f_raised = FALSE /\ f_exceptions = 0
    /\ CanadaIdle
    /\ ProductIdle
    /\ MainIdle
    /\ RecordIdle

NextFetch ==
    \/ FetchResponse
    \/ FetchRaises
    \/ FetchNoClient
    \/ FetchExhausted

SpecFetch == InitFetch /\ [][NextFetch]_vars

----------------------------------------------------------------------------
(* walmart_scraper/walmart_product.py: WalmartProductScraper *)

\* Bounds of the product scraper model
MaxUrls == 3            \* largest number of URLs passed to scrape_products
MaxConcurrencyBound == 2  \* largest concurrency explored

\* default max_attempts of fetch_html, used by fetch_product
DefaultMaxAttempts == 3

Tasks == 1..p_urls

\* the fetch_product coroutines that are inside "async with self._semaphore"
InSection == {t \in Tasks : p_pc[t] \in {"fetching", "parsing"}}

\* variant: the semaphore admits a task when its value is 0
SemaphoreFree_offbyone(value) == value >= 0

\* asyncio.Semaphore.acquire proceeds without waiting when the value is positive
SemaphoreFree(value) == value > 0

\* async with self._semaphore: the task acquires the semaphore
Acquire(t) ==
    /\ p_pc[t] = "pending"
    /\ SemaphoreFree(p_value)
    /\ p_value' = p_value - 1
    /\ p_pc' = [p_pc EXCEPT ![t] = "fetching"]
    /\ p_attempt' = [p_attempt EXCEPT ![t] = 1]
    /\ UNCHANGED <<max_retries, stores_per_province, proxy_list, api_blocked,
                   current_proxy_index, active_proxy, driver, pc, prov, store_num,
                   store_count, all_data, saved, termination, retry, data, qi, page, attempt,
                   use_browser_api, response, all_products, session_proxy, extract_result,
                   visited, live_drivers, prev_switched, gets, store_rot, cooldowns,
                   captcha_failed, gets_at_captcha, loop_reqs, backoffs, store_requested,
                   ret_reason, ret_products, req_after_ret, blocked_at_entry,
                   seen_4xx_direct, direct_after_4xx, reissue, first_via, f_pc,
                   f_max_attempts, f_client, f_scrapfly, f_attempt, f_fetches, f_result,
                   f_last, f_raised, f_exceptions, p_concurrency, p_urls, p_result,
                   p_gathered, m_pc, m_pages, m_concurrency, m_search_client,
                   m_product_client, m_error, s_page, s_results, s_fetched, s_stopped, n_pc,
                   n_page_id, n_slug, n_hint, n_raw, n_store_id, n_record>>

\* one attempt of fetch_html inside the section is blocked, lacks
\* __NEXT_DATA__ or raises: sleep and try again
ProductFetchRetry(t) ==
    /\ p_pc[t] = "fetching"
    /\ p_attempt[t] <= DefaultMaxAttempts
    /\ p_attempt' = [p_attempt EXCEPT ![t] = @ + 1]
    /\ UNCHANGED <<max_retries, stores_per_province, proxy_list, api_blocked,
                   current_proxy_index, active_proxy, driver, pc, prov, store_num,
                   store_count, all_data, saved, termination, retry, data, qi, page, attempt,
                   use_browser_api, response, all_products, session_proxy, extract_result,
                   visited, live_drivers, prev_switched, gets, store_rot, cooldowns,
                   captcha_failed, gets_at_captcha, loop_reqs, backoffs, store_requested,
                   ret_reason, ret_products, req_after_ret, blocked_at_entry,
                   seen_4xx_direct, direct_after_4xx, reissue, first_via, f_pc,
                   f_max_attempts, f_client, f_scrapfly, f_attempt, f_fetches, f_result,
                   f_last, f_raised, f_exceptions, p_concurrency, p_urls, p_value, p_pc,
                   p_result, p_gathered, m_pc, m_pages, m_concurrency, m_search_client,
                   m_product_client, m_error, s_page, s_results, s_fetched, s_stopped, n_pc,
                   n_page_id, n_slug, n_hint, n_raw, n_store_id, n_record>>

\* one attempt of fetch_html returns a valid text
ProductFetchValid(t) ==
    /\ p_pc[t] = "fetching"
    /\ p_attempt[t] <= DefaultMaxAttempts
    /\ p_pc' = [p_pc EXCEPT ![t] = "parsing"]
    /\ UNCHANGED <<max_retries, stores_per_province, proxy_list, api_blocked,
                   current_proxy_index, active_proxy, driver, pc, prov, store_num,
                   store_count, all_data, saved, termination, retry, data, qi, page, attempt,
                   use_browser_api, response, all_products, session_proxy, extract_result,
                   visited, live_drivers, prev_switched, gets, store_rot, cooldowns,
                   captcha_failed, gets_at_captcha, loop_reqs, backoffs, store_requested,
                   ret_reason, ret_products, req_after_ret, blocked_at_entry,
                   seen_4xx_direct, direct_after_4xx, reissue, first_via, f_pc,
                   f_max_attempts, f_client, f_scrapfly, f_attempt, f_fetches, f_result,
                   f_last, f_raised, f_exceptions, p_concurrency, p_urls, p_value, p_attempt,
                   p_result, p_gathered, m_pc, m_pages, m_concurrency, m_search_client,
                   m_product_client, m_error, s_page, s_results, s_fetched, s_stopped, n_pc,
                   n_page_id, n_slug, n_hint, n_raw, n_store_id, n_record>>

\* fetch_html returned None: "if not html: return None" leaves the section
ProductNoHtml(t) ==
    /\ p_pc[t] = "fetching"
    /\ p_attempt[t] > DefaultMaxAttempts
    /\ p_result' = [p_result EXCEPT ![t] = "None"]
    /\ p_pc' = [p_pc EXCEPT ![t] = "done"]
    /\ p_value' = p_value + 1
    /\ UNCHANGED <<max_retries, stores_per_province, proxy_list, api_blocked,
                   current_proxy_index, active_proxy, driver, pc, prov, store_num,
                   store_count, all_data, saved, termination, retry, data, qi, page, attempt,
                   use_browser_api, response, all_products, session_proxy, extract_result,
                   visited, live_drivers, prev_switched, gets, store_rot, cooldowns,
                   captcha_failed, gets_at_captcha, loop_reqs, backoffs, store_requested,
                   ret_reason, ret_products, req_after_ret, blocked_at_entry,
                   seen_4xx_direct, direct_after_4xx, reissue, first_via, f_pc,
                   f_max_attempts, f_client, f_scrapfly, f_attempt, f_fetches, f_result,
                   f_last, f_raised, f_exceptions, p_concurrency, p_urls, p_attempt,
                   p_gathered, m_pc, m_pages, m_concurrency, m_search_client,
                   m_product_client, m_error, s_page, s_results, s_fetched, s_stopped, n_pc,
                   n_page_id, n_slug, n_hint, n_raw, n_store_id, n_record>>

\* extract_next_data / safe_get: the product dictionary or None is returned
\* and the semaphore is released
ProductParsed(t) ==
    /\ p_pc[t] = "parsing"
    /\ \E res \in {"product", "None"} : p_result' = [p_result EXCEPT ![t] = res]
    /\ p_pc' = [p_pc EXCEPT ![t] = "done"]
    /\ p_value' = p_value + 1
    /\ UNCHANGED <<max_retries, stores_per_province, proxy_list, api_blocked,
                   current_proxy_index, active_proxy, driver, pc, prov, store_num,
                   store_count, all_data, saved, termination, retry, data, qi, page, attempt,
                   use_browser_api, response, all_products, session_proxy, extract_result,
                   visited, live_drivers, prev_switched, gets, store_rot, cooldowns,
                   captcha_failed, gets_at_captcha, loop_reqs, backoffs, store_requested,
                   ret_reason, ret_products, req_after_ret, blocked_at_entry,
                   seen_4xx_direct, direct_after_4xx, reissue, first_via, f_pc,
                   f_max_attempts, f_client, f_scrapfly, f_attempt, f_fetches, f_result,
                   f_last, f_raised, f_exceptions, p_concurrency, p_urls, p_attempt,
                   p_gathered, m_pc, m_pages, m_concurrency, m_search_client,
                   m_product_client, m_error, s_page, s_results, s_fetched, s_stopped, n_pc,
                   n_page_id, n_slug, n_hint, n_raw, n_store_id, n_record>>

\* results = await asyncio.gather(*tasks): every task has finished
Gather ==
    /\ ~p_gathered
    /\ \A t \in Tasks : p_pc[t] = "done"
    /\ p_gathered' = TRUE
    /\ UNCHANGED <<max_retries, stores_per_province, proxy_list, api_blocked,
                   current_proxy_index, active_proxy, driver, pc, prov, store_num,
                   store_count, all_data, saved, termination, retry, data, qi, page, attempt,
                   use_browser_api, response, all_products, session_proxy, extract_result,
                   visited, live_drivers, prev_switched, gets, store_rot, cooldowns,
                   captcha_failed, gets_at_captcha, loop_reqs, backoffs, store_requested,
                   ret_reason, ret_products, req_after_ret, blocked_at_entry,
                   seen_4xx_direct, direct_after_4xx, reissue, first_via, f_pc,
                   f_max_attempts, f_client, f_scrapfly, f_attempt, f_fetches, f_result,
                   f_last, f_raised, f_exceptions, p_concurrency, p_urls, p_value, p_pc,
                   p_attempt, p_result, m_pc, m_pages, m_concurrency, m_search_client,
                   m_product_client, m_error, s_page, s_results, s_fetched, s_stopped, n_pc,
                   n_page_id, n_slug, n_hint, n_raw, n_store_id, n_record>>

\* WalmartProductScraper(concurrency=...) and scrape_products(urls): the
\* coroutines are created and scheduled by gather
InitProduct ==
    /\ p_concurrency \in 0..MaxConcurrencyBound
    /\ p_urls \in 0..MaxUrls
    /\ p_value = p_concurrency
    /\ p_pc = [t \in 1..p_urls |-> "pending"]
    /\ p_attempt = [t \in 1..p_urls |-> 0]
    /\ p_result = [t \in 1..p_urls |-> ""]
    /\ p_gathered = FALSE
    /\ CanadaIdle
    /\ FetchIdle
    /\ MainIdle
    /\ RecordIdle

NextProduct ==
    \/ \E t \in Tasks : Acquire(t)
    \/ \E t \in Tasks : ProductFetchRetry(t)
    \/ \E t \in Tasks : ProductFetchValid(t)
    \/ \E t \in Tasks : ProductNoHtml(t)
    \/ \E t \in Tasks : ProductParsed(t)
    \/ Gather

SpecProduct == InitProduct /\ [][NextProduct]_vars

----------------------------------------------------------------------------
(* Properties of fetch_html and of WalmartProductScraper *)

\* a response as C7 describes the accepted ones
C7_Acceptable(r) ==
    /\ r.status \notin {403, 429, 456, 503}
    /\ \A m \in BLOCK_MARKERS : ~(\E t \in r.text : Lower(m) \in Parts(Lower(t)))
    /\ \E t \in r.text : "__NEXT_DATA__" \in Parts(t)

\* C7: fetch_html issues at most max_attempts fetches and returns a non-None
\* text only for a response whose status is not in {403, 429, 456, 503},
\* whose body holds no block marker (case-insensitively) and holds
\* "__NEXT_DATA__"; it returns the first such response, and None when no
\* attempt produced one.
C7_FetchHtml ==
    /\ f_fetches <= f_max_attempts
    /\ (f_result # <<>>) =>
            /\ f_pc = "done"
            /\ f_last # <<>>
            /\ C7_Acceptable(f_last[1])
            /\ f_result[1] = f_last[1].text
    /\ (f_last # <<>> /\ f_result = <<>>) => ~C7_Acceptable(f_last[1])
    /\ (f_pc = "done" /\ f_result = <<>>) => f_attempt = f_max_attempts + 1

\* the third attempt returned a text after two rejected ones
C7_Witness ==
    /\ f_pc = "done"
    /\ f_result # <<>>
    /\ f_fetches = 3
    /\ f_exceptions = 0

\* C8: fetch_html never propagates an exception: an exception raised during
\* an attempt (transport error, or the RuntimeError for a missing client) is
\* consumed as one failed attempt, and after max_attempts failed attempts
\* the function returns None.
C8_NoException ==
    /\ ~f_raised
    /\ f_exceptions <= f_attempt - 1
    /\ (f_pc = "done" /\ f_exceptions > 0 /\ f_exceptions = f_max_attempts) =>
            f_result = <<>>

\* every attempt raised the RuntimeError of the missing client; None returned
C8_Witness ==
    /\ f_pc = "done"
    /\ ~f_scrapfly /\ ~f_client
    /\ f_max_attempts = 3
    /\ f_exceptions = 3
    /\ f_result = <<>>

\* C10: at every moment the number of fetch_product calls inside the
\* semaphore section is at most the configured concurrency, whatever the
\* number of URLs.
C10_SemaphoreBound ==
    /\ Cardinality(InSection) <= p_concurrency
    /\ p_value = p_concurrency - Cardinality(InSection)

\* more URLs than permits: the section is full and a task is waiting
C10_Witness ==
    /\ p_concurrency = 2
    /\ Cardinality(InSection) = 2
    /\ \E t \in Tasks : p_pc[t] = "pending"

----------------------------------------------------------------------------
(* walmart_scraper/walmart_main.py run_scraper, walmart_search.py scrape_search *)

\* Bound of the run_scraper model
MaxPagesArg == 3       \* largest --pages explored below the cap (the cap + 1 is added)

\* default of the parameter max_pages of scrape_search
SearchMaxPages == 25

\* variant: the page count is not capped
total_pages_nocap(pages, maxp) == pages

\* total_pages = min(pages, max_pages)
total_pages(pages, maxp) == Min(pages, maxp)

\* asyncio.Semaphore(value) raises ValueError when value < 0
SemaphoreRejects(value) == value < 0

\* OUTPUT_DIR.mkdir raises: no scraper was created
MainMkdirRaises ==
    /\ m_pc = "start"
    /\ m_error' = TRUE
    /\ m_pc' = "done"
    /\ UNCHANGED <<max_retries, stores_per_province, proxy_list, api_blocked,
                   current_proxy_index, active_proxy, driver, pc, prov, store_num,
                   store_count, all_data, saved, termination, retry, data, qi, page, attempt,
                   use_browser_api, response, all_products, session_proxy, extract_result,
                   visited, live_drivers, prev_switched, gets, store_rot, cooldowns,
                   captcha_failed, gets_at_captcha, loop_reqs, backoffs, store_requested,
                   ret_reason, ret_products, req_after_ret, blocked_at_entry,
                   seen_4xx_direct, direct_after_4xx, reissue, first_via, f_pc,
                   f_max_attempts, f_client, f_scrapfly, f_attempt, f_fetches, f_result,
                   f_last, f_raised, f_exceptions, p_concurrency, p_urls, p_value, p_pc,
                   p_attempt, p_result, p_gathered, m_pages, m_concurrency, m_search_client,
                   m_product_client, s_page, s_results, s_fetched, s_stopped, n_pc,
                   n_page_id, n_slug, n_hint, n_raw, n_store_id, n_record>>

\* search_scraper = WalmartSearchScraper(); product_scraper =
\* WalmartProductScraper(concurrency=concurrency): each constructor creates
\* its httpx.AsyncClient; the second one then builds the semaphore, outside
\* the try block of run_scraper
MainCreateScrapers ==
    /\ m_pc = "start"
    /\ m_search_client' = "open"
    /\ m_product_client' = "open"
    /\ IF SemaphoreRejects(m_concurrency)
       THEN /\ m_error' = TRUE
            /\ m_pc' = "done"
            /\ s_page' = s_page
       ELSE /\ m_error' = m_error
            /\ m_pc' = "search"
            /\ s_page' = 1
    /\ UNCHANGED <<max_retries, stores_per_province, proxy_list, api_blocked,
                   current_proxy_index, active_proxy, driver, pc, prov, store_num,
                   store_count, all_data, saved, termination, retry, data, qi, page, attempt,
                   use_browser_api, response, all_products, session_proxy, extract_result,
                   visited, live_drivers, prev_switched, gets, store_rot, cooldowns,
                   captcha_failed, gets_at_captcha, loop_reqs, backoffs, store_requested,
                   ret_reason, ret_products, req_after_ret, blocked_at_entry,
                   seen_4xx_direct, direct_after_4xx, reissue, first_via, f_pc,
                   f_max_attempts, f_client, f_scrapfly, f_attempt, f_fetches, f_result,
                   f_last, f_raised, f_exceptions, p_concurrency, p_urls, p_value, p_pc,
                   p_attempt, p_result, p_gathered, m_pages, m_concurrency, s_results,
                   s_fetched, s_stopped, n_pc, n_page_id, n_slug, n_hint, n_raw, n_store_id,
                   n_record>>

\* for page in range(1, total_pages + 1)
SearchLooping == m_pc = "search" /\ s_page <= total_pages(m_pages, SearchMaxPages)

\* one iteration: fetch_search_page returns a list; an empty one breaks,
\* a non-empty one is appended to results
SearchFetchPage ==
    /\ SearchLooping
    /\ s_fetched' = Append(s_fetched, s_page)
    /\ \E found \in BOOLEAN :
        IF found
        THEN /\ s_results' = Append(s_results, s_page)
             /\ s_page' = s_page + 1
             /\ UNCHANGED <<m_pc, s_stopped>>
        ELSE /\ s_stopped' = s_page
             /\ m_pc' = "save_search"
             /\ UNCHANGED <<s_results, s_page>>
    /\ UNCHANGED <<max_retries, stores_per_province, proxy_list, api_blocked,
                   current_proxy_index, active_proxy, driver, pc, prov, store_num,
                   store_count, all_data, saved, termination, retry, data, qi, page, attempt,
                   use_browser_api, response, all_products, session_proxy, extract_result,
                   visited, live_drivers, prev_switched, gets, store_rot, cooldowns,
                   captcha_failed, gets_at_captcha, loop_reqs, backoffs, store_requested,
                   ret_reason, ret_products, req_after_ret, blocked_at_entry,
                   seen_4xx_direct, direct_after_4xx, reissue, first_via, f_pc,
                   f_max_attempts, f_client, f_scrapfly, f_attempt, f_fetches, f_result,
                   f_last, f_raised, f_exceptions, p_concurrency, p_urls, p_value, p_pc,
                   p_attempt, p_result, p_gathered, m_pages, m_concurrency, m_search_client,
                   m_product_client, m_error, n_pc, n_page_id, n_slug, n_hint, n_raw,
                   n_store_id, n_record>>

\* fetch_search_page raises (e.g. an itemStacks entry without a list of
\* items): the exception leaves scrape_search and reaches the finally clause
SearchPageRaises ==
    /\ SearchLooping
    /\ s_fetched' = Append(s_fetched, s_page)
    /\ m_error' = TRUE
    /\ m_pc' = "finally"
    /\ UNCHANGED <<max_retries, stores_per_province, proxy_list, api_blocked,
                   current_proxy_index, active_proxy, driver, pc, prov, store_num,
                   store_count, all_data, saved, termination, retry, data, qi, page, attempt,
                   use_browser_api, response, all_products, session_proxy, extract_result,
                   visited, live_drivers, prev_switched, gets, store_rot, cooldowns,
                   captcha_failed, gets_at_captcha, loop_reqs, backoffs, store_requested,
                   ret_reason, ret_products, req_after_ret, blocked_at_entry,
                   seen_4xx_direct, direct_after_4xx, reissue, first_via, f_pc,
                   f_max_attempts, f_client, f_scrapfly, f_attempt, f_fetches, f_result,
                   f_last, f_raised, f_exceptions, p_concurrency, p_urls, p_value, p_pc,
                   p_attempt, p_result, p_gathered, m_pages, m_concurrency, m_search_client,
                   m_product_client, s_page, s_results, s_stopped, n_pc, n_page_id, n_slug,
                   n_hint, n_raw, n_store_id, n_record>>

\* the range is exhausted: return results
SearchDone ==
    /\ m_pc = "search"
    /\ ~(s_page <= total_pages(m_pages, SearchMaxPages))
    /\ m_pc' = "save_search"
    /\ UNCHANGED <<max_retries, stores_per_province, proxy_list, api_blocked,
                   current_proxy_index, active_proxy, driver, pc, prov, store_num,
                   store_count, all_data, saved, termination, retry, data, qi, page, attempt,
                   use_browser_api, response, all_products, session_proxy, extract_result,
                   visited, live_drivers, prev_switched, gets, store_rot, cooldowns,
                   captcha_failed, gets_at_captcha, loop_reqs, backoffs, store_requested,
                   ret_reason, ret_products, req_after_ret, blocked_at_entry,
                   seen_4xx_direct, direct_after_4xx, reissue, first_via, f_pc,
                   f_max_attempts, f_client, f_scrapfly, f_attempt, f_fetches, f_result,
                   f_last, f_raised, f_exceptions, p_concurrency, p_urls, p_value, p_pc,
                   p_attempt, p_result, p_gathered, m_pages, m_concurrency, m_search_client,
                   m_product_client, m_error, s_page, s_results, s_fetched, s_stopped, n_pc,
                   n_page_id, n_slug, n_hint, n_raw, n_store_id, n_record>>

\* save_json(search_results, ...)
MainSaveSearch ==
    /\ m_pc = "save_search"
    /\ m_pc' = "products"
    /\ UNCHANGED <<max_retries, stores_per_province, proxy_list, api_blocked,
                   current_proxy_index, active_proxy, driver, pc, prov, store_num,
                   store_count, all_data, saved, termination, retry, data, qi, page, attempt,
                   use_browser_api, response, all_products, session_proxy, extract_result,
                   visited, live_drivers, prev_switched, gets, store_rot, cooldowns,
                   captcha_failed, gets_at_captcha, loop_reqs, backoffs, store_requested,
                   ret_reason, ret_products, req_after_ret, blocked_at_entry,
                   seen_4xx_direct, direct_after_4xx, reissue, first_via, f_pc,
                   f_max_attempts, f_client, f_scrapfly, f_attempt, f_fetches, f_result,
                   f_last, f_raised, f_exceptions, p_concurrency, p_urls, p_value, p_pc,
                   p_attempt, p_result, p_gathered, m_pages, m_concurrency, m_search_client,
                   m_product_client, m_error, s_page, s_results, s_fetched, s_stopped, n_pc,
                   n_page_id, n_slug, n_hint, n_raw, n_store_id, n_record>>

\* product_scraper.scrape_products(product_urls) returns: with a semaphore
\* of value 0 no fetch_product call can ever enter its section
MainProducts ==
    /\ m_pc = "products"
    /\ m_concurrency > 0 \/ s_results = <<>>
    /\ m_pc' = "save"
    /\ UNCHANGED <<max_retries, stores_per_province, proxy_list, api_blocked,
                   current_proxy_index, active_proxy, driver, pc, prov, store_num,
                   store_count, all_data, saved, termination, retry, data, qi, page, attempt,
                   use_browser_api, response, all_products, session_proxy, extract_result,
                   visited, live_drivers, prev_switched, gets, store_rot, cooldowns,
                   captcha_failed, gets_at_captcha, loop_reqs, backoffs, store_requested,
                   ret_reason, ret_products, req_after_ret, blocked_at_entry,
                   seen_4xx_direct, direct_after_4xx, reissue, first_via, f_pc,
                   f_max_attempts, f_client, f_scrapfly, f_attempt, f_fetches, f_result,
                   f_last, f_raised, f_exceptions, p_concurrency, p_urls, p_value, p_pc,
                   p_attempt, p_result, p_gathered, m_pages, m_concurrency, m_search_client,
                   m_product_client, m_error, s_page, s_results, s_fetched, s_stopped, n_pc,
                   n_page_id, n_slug, n_hint, n_raw, n_store_id, n_record>>

\* save_json(product_details, ...); build_csv_rows; save_csv
MainSaveOutputs ==
    /\ m_pc = "save"
    /\ m_pc' = "finally"
    /\ UNCHANGED <<max_retries, stores_per_province, proxy_list, api_blocked,
                   current_proxy_index, active_proxy, driver, pc, prov, store_num,
                   store_count, all_data, saved, termination, retry, data, qi, page, attempt,
                   use_browser_api, response, all_products, session_proxy, extract_result,
                   visited, live_drivers, prev_switched, gets, store_rot, cooldowns,
                   captcha_failed, gets_at_captcha, loop_reqs, backoffs, store_requested,
                   ret_reason, ret_products, req_after_ret, blocked_at_entry,
                   seen_4xx_direct, direct_after_4xx, reissue, first_via, f_pc,
                   f_max_attempts, f_client, f_scrapfly, f_attempt, f_fetches, f_result,
                   f_last, f_raised, f_exceptions, p_concurrency, p_urls, p_value, p_pc,
                   p_attempt, p_result, p_gathered, m_pages, m_concurrency, m_search_client,
                   m_product_client, m_error, s_page, s_results, s_fetched, s_stopped, n_pc,
                   n_page_id, n_slug, n_hint, n_raw, n_store_id, n_record>>

\* a step inside the try block raises (a file cannot be written, a product
\* page makes fetch_product raise)
MainStepRaises ==
    /\ m_pc \in {"save_search", "products", "save"}
    /\ m_error' = TRUE
    /\ m_pc' = "finally"
    /\ UNCHANGED <<max_retries, stores_per_province, proxy_list, api_blocked,
                   current_proxy_index, active_proxy, driver, pc, prov, store_num,
                   store_count, all_data, saved, termination, retry, data, qi, page, attempt,
                   use_browser_api, response, all_products, session_proxy, extract_result,
                   visited, live_drivers, prev_switched, gets, store_rot, cooldowns,
                   captcha_failed, gets_at_captcha, loop_reqs, backoffs, store_requested,
                   ret_reason, ret_products, req_after_ret, blocked_at_entry,
                   seen_4xx_direct, direct_after_4xx, reissue, first_via, f_pc,
                   f_max_attempts, f_client, f_scrapfly, f_attempt, f_fetches, f_result,
                   f_last, f_raised, f_exceptions, p_concurrency, p_urls, p_value, p_pc,
                   p_attempt, p_result, p_gathered, m_pages, m_concurrency, m_search_client,
                   m_product_client, s_page, s_results, s_fetched, s_stopped, n_pc,
                   n_page_id, n_slug, n_hint, n_raw, n_store_id, n_record>>

\* finally: asyncio.gather(search_scraper.close(), product_scraper.close()),
\* the two close() coroutines run in either order
MainCloseSearch ==
    /\ m_pc = "finally"
    /\ m_search_client = "open"
    /\ m_search_client' = "closed"
    /\ UNCHANGED <<max_retries, stores_per_province, proxy_list, api_blocked,
                   current_proxy_index, active_proxy, driver, pc, prov, store_num,
                   store_count, all_data, saved, termination, retry, data, qi, page, attempt,
                   use_browser_api, response, all_products, session_proxy, extract_result,
                   visited, live_drivers, prev_switched, gets, store_rot, cooldowns,
                   captcha_failed, gets_at_captcha, loop_reqs, backoffs, store_requested,
                   ret_reason, ret_products, req_after_ret, blocked_at_entry,
                   seen_4xx_direct, direct_after_4xx, reissue, first_via, f_pc,
                   f_max_attempts, f_client, f_scrapfly, f_attempt, f_fetches, f_result,
                   f_last, f_raised, f_exceptions, p_concurrency, p_urls, p_value, p_pc,
                   p_attempt, p_result, p_gathered, m_pc, m_pages, m_concurrency,
                   m_product_client, m_error, s_page, s_results, s_fetched, s_stopped, n_pc,
                   n_page_id, n_slug, n_hint, n_raw, n_store_id, n_record>>

MainCloseProduct ==
    /\ m_pc = "finally"
    /\ m_product_client = "open"
    /\ m_product_client' = "closed"
    /\ UNCHANGED <<max_retries, stores_per_province, proxy_list, api_blocked,
                   current_proxy_index, active_proxy, driver, pc, prov, store_num,
                   store_count, all_data, saved, termination, retry, data, qi, page, attempt,
                   use_browser_api, response, all_products, session_proxy, extract_result,
                   visited, live_drivers, prev_switched, gets, store_rot, cooldowns,
                   captcha_failed, gets_at_captcha, loop_reqs, backoffs, store_requested,
                   ret_reason, ret_products, req_after_ret, blocked_at_entry,
                   seen_4xx_direct, direct_after_4xx, reissue, first_via, f_pc,
                   f_max_attempts, f_client, f_scrapfly, f_attempt, f_fetches, f_result,
                   f_last, f_raised, f_exceptions, p_concurrency, p_urls, p_value, p_pc,
                   p_attempt, p_result, p_gathered, m_pc, m_pages, m_concurrency,
                   m_search_client, m_error, s_page, s_results, s_fetched, s_stopped, n_pc,
                   n_page_id, n_slug, n_hint, n_raw, n_store_id, n_record>>

\* gather has both results: run_scraper returns or re-raises
MainReturn ==
    /\ m_pc = "finally"
    /\ m_search_client = "closed"
    /\ m_product_client = "closed"
    /\ m_pc' = "done"
    /\ UNCHANGED <<max_retries, stores_per_province, proxy_list, api_blocked,
                   current_proxy_index, active_proxy, driver, pc, prov, store_num,
                   store_count, all_data, saved, termination, retry, data, qi, page, attempt,
                   use_browser_api, response, all_products, session_proxy, extract_result,
                   visited, live_drivers, prev_switched, gets, store_rot, cooldowns,
                   captcha_failed, gets_at_captcha, loop_reqs, backoffs, store_requested,
                   ret_reason, ret_products, req_after_ret, blocked_at_entry,
                   seen_4xx_direct, direct_after_4xx, reissue, first_via, f_pc,
                   f_max_attempts, f_client, f_scrapfly, f_attempt, f_fetches, f_result,
                   f_last, f_raised, f_exceptions, p_concurrency, p_urls, p_value, p_pc,
                   p_attempt, p_result, p_gathered, m_pages, m_concurrency, m_search_client,
                   m_product_client, m_error, s_page, s_results, s_fetched, s_stopped, n_pc,
                   n_page_id, n_slug, n_hint, n_raw, n_store_id, n_record>>

\* a call run_scraper(query, pages, concurrency)
InitMain ==
    /\ m_pages \in ((0 - 1)..MaxPagesArg) \cup {SearchMaxPages + 1}
    /\ m_concurrency \in (0 - 1)..MaxConcurrencyBound
    /\ m_pc = "start"
    /\ m_search_client = "none" /\ m_product_client = "none" /\ m_error = FALSE
    /\ s_page = 0 /\ s_results = <<>> /\ s_fetched = <<>> /\ s_stopped = 0
    /\ CanadaIdle
    /\ FetchIdle
    /\ ProductIdle
    /\ RecordIdle

NextMain ==
    \/ MainMkdirRaises
    \/ MainCreateScrapers
    \/ SearchFetchPage
    \/ SearchPageRaises
    \/ SearchDone
    \/ MainSaveSearch
    \/ MainProducts
    \/ MainSaveOutputs
    \/ MainStepRaises
    \/ MainCloseSearch
    \/ MainCloseProduct
    \/ MainReturn

SpecMain == InitMain /\ [][NextMain]_vars

----------------------------------------------------------------------------
(* Properties of run_scraper and scrape_search *)

\* C11: scrape_search fetches search pages in the order 1, 2, ..., never a
\* page above min(pages, 25); it stops at the first page that yields no
\* items and returns the items of the fetched pages in page order.
C11_SearchPaging ==
    /\ \A i \in 1..Len(s_fetched) : s_fetched[i] = i
    /\ \A i \in 1..Len(s_fetched) : s_fetched[i] <= 25 /\ s_fetched[i] <= m_pages
    /\ (s_stopped # 0) =>
            /\ Len(s_fetched) = s_stopped
            /\ Len(s_results) = s_stopped - 1
    /\ \A i \in 1..Len(s_results) : s_results[i] = i
    /\ Len(s_results) <= Len(s_fetched)
    /\ (m_pc \in {"save_search", "products", "save"} /\ s_stopped = 0) =>
            /\ s_results = s_fetched
            /\ Len(s_results) = (IF m_pages < 0 THEN 0
                                 ELSE IF m_pages < 25 THEN m_pages ELSE 25)

\* more pages were asked for than the cap; every page had items and the
\* search returned after page 25
C11_Witness ==
    /\ m_pages > 25
    /\ m_pc = "products"
    /\ Len(s_fetched) = 25
    /\ s_stopped = 0

\* C17: run_scraper closes the HTTP client of the search scraper and of the
\* product scraper on every exit path, and only after the scraping steps
\* have finished.
C17_ClientsClosed ==
    /\ (m_pc = "done") =>
            (m_search_client # "open" /\ m_product_client # "open")
    /\ (m_search_client = "closed" \/ m_product_client = "closed") =>
            m_pc \in {"finally", "done"}

----------------------------------------------------------------------------
(* Product records: _extract_store_metadata, _detect_promo_type,           *)
(* _normalize_product                                                      *)

\* Keywords _detect_promo_type looks for in the lower-cased badge text
PromoKeywords == {"rollback", "clearance", "deal", "special", "promo"}

\* A raw item is described by the keywords that occur (in any letter case)
\* in its badge/offer texts, by its title and by its URL field; None is "None".
RawTitles == {None, "", "Lamp"}

RawUrls == {None, "", "/ip/1", "https://www.walmart.ca/ip/2"}

RawItems == [promo : SUBSET PromoKeywords, title : RawTitles, url : RawUrls]

\* Store ids the page source can show and last path segments of a store URL
PageIds == {"", "1234"}

Slugs == {"", "stores", "store-2"}

\* Python truthiness of an Optional[str]
TruthyStr(x) == x # None /\ x # ""

\* re.search(r"(\d+)", store_slug)
SlugDigits(slug) == IF slug = "store-2" THEN "2" ELSE None

\* _extract_store_metadata: the id of the page source, else the digits of the slug
extract_store_metadata(page_id, slug) ==
    IF page_id # "" THEN page_id
    ELSE IF slug # "" THEN SlugDigits(slug)
    ELSE None

\* _detect_promo_type(raw, promo_hint)
detect_promo_type(raw, promo_hint) ==
    IF "rollback" \in raw.promo THEN "rollback"
    ELSE IF "clearance" \in raw.promo THEN "clearance"
    ELSE IF raw.promo \cap {"deal", "special", "promo"} # {} THEN "deal"
    ELSE promo_hint

\* product_url after the "startswith('/')" prefixing
ProductUrl(url) ==
    IF TruthyStr(url) /\ url = "/ip/1" THEN "https://www.walmart.ca/ip/1" ELSE url

\* variant: an item without title and URL is kept
DropsItem_never(title, url) == FALSE

\* "if not title and not product_url: return None"
DropsItem(title, url) == ~TruthyStr(title) /\ ~TruthyStr(url)

\* x or ""
OrEmpty(x) == IF TruthyStr(x) THEN x ELSE ""

\* _normalize_product(raw, store_id, store_slug, province, promo_type):
\* <<>> for None, else the record (the fields the properties read)
normalize_product(raw, store_id, store_slug, promo_type) ==
    IF ~TruthyStr(promo_type) THEN <<>>
    ELSE IF DropsItem(raw.title, ProductUrl(raw.url)) THEN <<>>
    ELSE <<[store_id |-> IF TruthyStr(store_id) THEN store_id ELSE store_slug,
            store_slug |-> store_slug,
            name |-> OrEmpty(raw.title),
            product_url |-> OrEmpty(ProductUrl(raw.url)),
            promo_type |-> promo_type]>>

\* scrape_store_page: store_id, province, store_slug = _extract_store_metadata(url)
\* and the call of _extract_products_via_api
RecordMetadata ==
    /\ n_pc = "call"
    /\ n_store_id' = extract_store_metadata(n_page_id, n_slug)
    /\ n_pc' = "entry"
    /\ UNCHANGED <<max_retries, stores_per_province, proxy_list, api_blocked,
                   current_proxy_index, active_proxy, driver, pc, prov, store_num,
                   store_count, all_data, saved, termination, retry, data, qi, page, attempt,
                   use_browser_api, response, all_products, session_proxy, extract_result,
                   visited, live_drivers, prev_switched, gets, store_rot, cooldowns,
                   captcha_failed, gets_at_captcha, loop_reqs, backoffs, store_requested,
                   ret_reason, ret_products, req_after_ret, blocked_at_entry,
                   seen_4xx_direct, direct_after_4xx, reissue, first_via, f_pc,
                   f_max_attempts, f_client, f_scrapfly, f_attempt, f_fetches, f_result,
                   f_last, f_raised, f_exceptions, p_concurrency, p_urls, p_value, p_pc,
                   p_attempt, p_result, p_gathered, m_pc, m_pages, m_concurrency,
                   m_search_client, m_product_client, m_error, s_page, s_results, s_fetched,
                   s_stopped, n_page_id, n_slug, n_hint, n_raw, n_record>>

\* "if not store_id: return []": no item is ever normalised
RecordNoStoreId ==
    /\ n_pc = "entry"
    /\ ~TruthyStr(n_store_id)
    /\ n_pc' = "done"
    /\ UNCHANGED <<max_retries, stores_per_province, proxy_list, api_blocked,
                   current_proxy_index, active_proxy, driver, pc, prov, store_num,
                   store_count, all_data, saved, termination, retry, data, qi, page, attempt,
                   use_browser_api, response, all_products, session_proxy, extract_result,
                   visited, live_drivers, prev_switched, gets, store_rot, cooldowns,
                   captcha_failed, gets_at_captcha, loop_reqs, backoffs, store_requested,
                   ret_reason, ret_products, req_after_ret, blocked_at_entry,
                   seen_4xx_direct, direct_after_4xx, reissue, first_via, f_pc,
                   f_max_attempts, f_client, f_scrapfly, f_attempt, f_fetches, f_result,
                   f_last, f_raised, f_exceptions, p_concurrency, p_urls, p_value, p_pc,
                   p_attempt, p_result, p_gathered, m_pc, m_pages, m_concurrency,
                   m_search_client, m_product_client, m_error, s_page, s_results, s_fetched,
                   s_stopped, n_page_id, n_slug, n_hint, n_raw, n_store_id, n_record>>

\* an item of a result page goes through _detect_promo_type and
\* _normalize_product; the record, if any, is what all_products receives
RecordItem ==
    /\ n_pc = "entry"
    /\ TruthyStr(n_store_id)
    /\ n_record' = normalize_product(n_raw, n_store_id, n_slug,
                                     detect_promo_type(n_raw, n_hint))
    /\ n_pc' = "done"
    /\ UNCHANGED <<max_retries, stores_per_province, proxy_list, api_blocked,
                   current_proxy_index, active_proxy, driver, pc, prov, store_num,
                   store_count, all_data, saved, termination, retry, data, qi, page, attempt,
                   use_browser_api, response, all_products, session_proxy, extract_result,
                   visited, live_drivers, prev_switched, gets, store_rot, cooldowns,
                   captcha_failed, gets_at_captcha, loop_reqs, backoffs, store_requested,
                   ret_reason, ret_products, req_after_ret, blocked_at_entry,
                   seen_4xx_direct, direct_after_4xx, reissue, first_via, f_pc,
                   f_max_attempts, f_client, f_scrapfly, f_attempt, f_fetches, f_result,
                   f_last, f_raised, f_exceptions, p_concurrency, p_urls, p_value, p_pc,
                   p_attempt, p_result, p_gathered, m_pc, m_pages, m_concurrency,
                   m_search_client, m_product_client, m_error, s_page, s_results, s_fetched,
                   s_stopped, n_page_id, n_slug, n_hint, n_raw, n_store_id>>

\* a store page and one raw item of one query's result page
InitRecord ==
    /\ n_pc = "call"
    /\ n_page_id \in PageIds
    /\ n_slug \in Slugs
    /\ n_hint \in {search_queries[i] : i \in 1..Len(search_queries)}
    /\ n_raw \in RawItems
    /\ n_store_id = ""
    /\ n_record = <<>>
    /\ CanadaIdle
    /\ FetchIdle
    /\ ProductIdle
    /\ MainIdle

NextRecord ==
    \/ RecordMetadata
    \/ RecordNoStoreId
    \/ RecordItem

SpecRecord == InitRecord /\ [][NextRecord]_vars

\* C12: every product record returned by _extract_products_via_api has a
\* promo_type in {rollback, clearance, deal}, a non-empty name or a non-empty
\* product_url, and a non-empty store_id field.
C12_ProductRecord ==
    (n_record # <<>>) =>
        /\ n_record[1].promo_type \in {"rollback", "clearance", "deal"}
        /\ n_record[1].name # "" \/ n_record[1].product_url # ""
        /\ n_record[1].store_id # ""
        /\ n_record[1].store_id # None

\* a record without title whose promo type comes from the query's hint and
\* whose store id comes from the slug of the URL
C12_Witness ==
    /\ n_record # <<>>
    /\ n_raw.promo = {}
    /\ n_raw.title = None
    /\ n_page_id = ""
    /\ n_record[1].store_id = "2"
    /\ n_record[1].promo_type = n_hint
====
